---- MODULE Spec2Model ----
(***************************************************************************)
(* Model of the metric engine of the Technical-Debt-Manager backend:       *)
(* CodeParser.analyze and its helpers (src/backend/app/analysis/parser.py).*)
(*                                                                         *)
(* A source text is a sequence of lines of characters.  The syntax tree is *)
(* the tree tree-sitter-python builds for it: every node has a type, the   *)
(* text it spans and its children (anonymous tokens such as "if" and ":"   *)
(* are nodes too, and their type is the token itself).  Numbers that the   *)
(* code keeps as floats rounded to two decimals are kept in hundredths.    *)
(***************************************************************************)
EXTENDS Integers, Sequences, FiniteSets, TLC

(***************************************************************************)
(* Bounds of the input family.                                             *)
(***************************************************************************)
\* text lines of an enumerated source
MaxLines == 3
\* text lines of a source in the repeated-call specification
MaxHistLines == 1

(***************************************************************************)
(* Node classification tables (parser.py:20-60, 127-131).                  *)
(***************************************************************************)
CONTROL_FLOW_NODES ==
    {"if_statement", "for_statement", "while_statement", "try_statement",
     "except_clause", "with_statement", "match_statement", "else_clause",
     "elif_clause"}

OPERATOR_NODES ==
    {"binary_operator", "unary_operator", "comparison_operator",
     "boolean_operator", "augmented_assignment", "assignment", "not_operator"}

OPERATOR_KEYWORDS ==
    {<<"i","f">>, <<"e","l","s","e">>, <<"e","l","i","f">>, <<"f","o","r">>,
     <<"w","h","i","l","e">>, <<"t","r","y">>, <<"e","x","c","e","p","t">>,
     <<"f","i","n","a","l","l","y">>, <<"w","i","t","h">>,
     <<"r","e","t","u","r","n">>, <<"y","i","e","l","d">>,
     <<"r","a","i","s","e">>, <<"b","r","e","a","k">>,
     <<"c","o","n","t","i","n","u","e">>, <<"p","a","s","s">>,
     <<"i","m","p","o","r","t">>, <<"f","r","o","m">>, <<"a","s">>,
     <<"d","e","f">>, <<"c","l","a","s","s">>, <<"l","a","m","b","d","a">>,
     <<"a","n","d">>, <<"o","r">>, <<"n","o","t">>, <<"i","n">>, <<"i","s">>,
     <<"a","w","a","i","t">>, <<"a","s","y","n","c">>, <<"m","a","t","c","h">>,
     <<"c","a","s","e">>}

OPERAND_NODES ==
    {"identifier", "integer", "float", "string", "true", "false", "none"}

ENCAPSULATION_NODES == {"function_definition", "class_definition", "module"}

(***************************************************************************)
(* Sources.  A source is a prelude of empty, whitespace-only and comment   *)
(* lines followed by statements.  A statement is a record                  *)
(*   [kind, arg, inline, body, clauses]                                    *)
(* kind: the statement (or clause) keyword; arg: the text of the literal   *)
(* of a string statement; body: the statements of its block; inline: the   *)
(* block is written after the colon on the header's line ("if x: pass");   *)
(* clauses: its elif / else / except clauses (records of the same shape).  *)
(***************************************************************************)
CompoundKinds == {"if", "for", "try", "def", "class"}
ClauseKinds == {"elif", "else", "except"}
PreKinds == {"empty", "spaces", "comment"}

\* the string literal of the string statements of the enumerated sources
DocLit == <<"\"","\"","\"","H","i","\"","\"","\"">>

Simple(k, a) ==
    [kind |-> k, arg |-> a, inline |-> FALSE, body |-> <<>>, clauses |-> <<>>]
Compound(k, i, b, cl) ==
    [kind |-> k, arg |-> <<>>, inline |-> i, body |-> b, clauses |-> cl]
Pass == Simple("pass", <<>>)
Assign == Simple("assign", <<>>)
Doc(l) == Simple("doc", l)

SimpleStmts == {Pass, Assign, Doc(DocLit)}

\* the clause-kind sequences Python's grammar allows after a statement
ValidClauses(k, ks) ==
    CASE k = "if" ->
           /\ \A i \in 1..Len(ks) : ks[i] \in {"elif", "else"}
           /\ \A i \in 1..Len(ks) : ks[i] = "else" => i = Len(ks)
      [] k \in {"for", "while"} -> ks \in {<<>>, <<"else">>}
      [] k = "try" ->
           /\ Len(ks) >= 1
           /\ ks[1] = "except"
           /\ \A i \in 1..Len(ks) : ks[i] \in {"except", "else"}
           /\ \A i \in 1..Len(ks) : ks[i] = "else" => i = Len(ks)
      [] OTHER -> ks = <<>>

\* the valid clause-kind sequences of at most n clauses
ClausePatterns(k, n) ==
    {ks \in UNION {[1..j -> ClauseKinds] : j \in 0..n} : ValidClauses(k, ks)}

\* The statements are built line count by line count: tab[m] holds the
\* statements (stmts) and the non-empty statement sequences (seqs) written
\* on exactly m lines.

\* the blocks that take m lines below their header: none when inline
Blocks(tab, m) ==
    IF m = 0 THEN {[inline |-> TRUE, body |-> <<Pass>>]}
    ELSE {[inline |-> FALSE, body |-> b] : b \in tab[m].seqs}

RECURSIVE ClauseSeqs(_, _, _)
\* the clause sequences of kinds ks written on exactly n lines
ClauseSeqs(tab, ks, n) ==
    IF ks = <<>> THEN (IF n = 0 THEN {<<>>} ELSE {})
    ELSE UNION { { <<Compound(ks[1], bl.inline, bl.body, <<>>)>> \o r :
                      bl \in Blocks(tab, m),
                      r \in ClauseSeqs(tab, Tail(ks), n - 1 - m) }
                 : m \in 0..(n - 1) }

\* the statements of kind k with clause kinds ks written on exactly n lines
CompoundStmts(tab, k, ks, n) ==
    UNION { { Compound(k, bl.inline, bl.body, cl) :
                 bl \in Blocks(tab, m),
                 cl \in ClauseSeqs(tab, ks, n - 1 - m) }
            : m \in 0..(n - 1) }

\* the statements written on exactly n lines
Stmts(tab, n) ==
    (IF n = 1 THEN SimpleStmts ELSE {}) \cup
    UNION { UNION { CompoundStmts(tab, k, ks, n) :
                       ks \in ClausePatterns(k, n - 1) }
            : k \in CompoundKinds }

\* the non-empty statement sequences written on exactly n lines, the
\* statements on n lines being stmts
StmtSeqs(tab, stmts, n) ==
    { <<s>> : s \in stmts } \cup
    UNION { { <<s>> \o r : s \in tab[m].stmts, r \in tab[n - m].seqs }
            : m \in 1..(n - 1) }

RECURSIVE StmtTable(_)
StmtTable(n) ==
    IF n = 0 THEN <<>>
    ELSE LET tab == StmtTable(n - 1)
             stmts == Stmts(tab, n)
         IN Append(tab, [stmts |-> stmts, seqs |-> StmtSeqs(tab, stmts, n)])

\* the sources of j lines before the first statement and m lines of
\* statements
SourcesOn(tab, j, m) ==
    { [pre |-> p, stmts |-> ss] :
         p \in [1..j -> PreKinds],
         ss \in (IF m = 0 THEN {<<>>} ELSE tab[m].seqs) }

\* the sources of at least one and at most n text lines
SourcesUpTo(n) ==
    LET tab == StmtTable(n)
    IN UNION { UNION { SourcesOn(tab, j, m)
                       : m \in (IF j = 0 THEN 1 ELSE 0)..(n - j) }
               : j \in 0..n }

(***************************************************************************)
(* The text of a source: its lines, which "\n" joins (str.split("\n")      *)
(* gives them back).  Texts are sequences of characters.                   *)
(***************************************************************************)
Spaces(n) == [i \in 1..n |-> " "]

\* the header line of a statement or clause, without its indentation
HeaderText(s) ==
    CASE s.kind = "doc" -> s.arg
      [] s.kind = "doclist" -> s.arg \o <<","," ","x">>
      [] s.kind = "listdoc" -> <<"x",","," ">> \o s.arg
      [] s.kind = "pass" -> <<"p","a","s","s">>
      [] s.kind = "assign" -> <<"x"," ","="," ","1">>
      [] s.kind = "if" -> <<"i","f"," ","x",":">>
      [] s.kind = "elif" -> <<"e","l","i","f"," ","y",":">>
      [] s.kind = "else" -> <<"e","l","s","e",":">>
      [] s.kind = "for" -> <<"f","o","r"," ","i"," ","i","n"," ","x","s",":">>
      [] s.kind = "while" -> <<"w","h","i","l","e"," ","x",":">>
      [] s.kind = "try" -> <<"t","r","y",":">>
      [] s.kind = "except" -> <<"e","x","c","e","p","t",":">>
      [] s.kind = "with" -> <<"w","i","t","h"," ","x",":">>
      [] s.kind = "def" -> <<"d","e","f"," ","f","(",")",":">>
      [] s.kind = "class" -> <<"c","l","a","s","s"," ","C",":">>

RECURSIVE StmtLines(_, _)
RECURSIVE SeqLines(_, _)
\* the lines of a statement written at nesting level d (four spaces a level)
StmtLines(s, d) ==
    <<Spaces(4 * d) \o HeaderText(s) \o
        (IF s.inline THEN <<" ">> \o HeaderText(s.body[1]) ELSE <<>>)>>
    \o (IF s.inline THEN <<>> ELSE SeqLines(s.body, d + 1))
    \o SeqLines(s.clauses, d)

SeqLines(ss, d) ==
    IF ss = <<>> THEN <<>> ELSE StmtLines(ss[1], d) \o SeqLines(Tail(ss), d)

PreLine(k) ==
    CASE k = "empty" -> <<>>
      [] k = "spaces" -> <<" ", " ">>
      [] k = "formfeed" -> <<"\f">>
      [] k = "comment" -> <<"#", " ", "c">>

\* the lines of the text of a source
SourceLines(src) ==
    [i \in 1..Len(src.pre) |-> PreLine(src.pre[i])] \o SeqLines(src.stmts, 0)

(***************************************************************************)
(* The syntax tree: what Parser.parse (tree-sitter-python) returns for the *)
(* text (parser.py:341-342).  A node is [type, text, children].  The text  *)
(* of a leaf and of a string node is its source text; the code reads the   *)
(* text of no other node, and it is left empty there.                      *)
(***************************************************************************)
Node(t, ch) == [type |-> t, text |-> <<>>, children |-> ch]
Leaf(t, txt) == [type |-> t, text |-> txt, children |-> <<>>]

\* the text of an anonymous token node, whose type is the token
TokenText(t) ==
    CASE t = "if" -> <<"i","f">>
      [] t = "elif" -> <<"e","l","i","f">>
      [] t = "else" -> <<"e","l","s","e">>
      [] t = "for" -> <<"f","o","r">>
      [] t = "in" -> <<"i","n">>
      [] t = "while" -> <<"w","h","i","l","e">>
      [] t = "try" -> <<"t","r","y">>
      [] t = "except" -> <<"e","x","c","e","p","t">>
      [] t = "with" -> <<"w","i","t","h">>
      [] t = "def" -> <<"d","e","f">>
      [] t = "class" -> <<"c","l","a","s","s">>
      [] t = "pass" -> <<"p","a","s","s">>
      [] t = ":" -> <<":">>
      [] t = "(" -> <<"(">>
      [] t = ")" -> <<")">>
      [] t = "=" -> <<"=">>
      [] t = "," -> <<",">>

Tok(t) == Leaf(t, TokenText(t))
Ident(txt) == Leaf("identifier", txt)

\* the letters that may stand before the quotes of a string literal
StringPrefixes == {"r", "R", "u", "U", "b", "B"}

PrefixLen(lit) == IF lit[1] \in StringPrefixes THEN 1 ELSE 0

\* the length of the quotes of a literal: three or one
QuoteLen(lit) ==
    LET k == PrefixLen(lit)
    IN IF Len(lit) >= k + 6 /\ lit[k + 2] = lit[k + 1]
          /\ lit[k + 3] = lit[k + 1]
       THEN 3 ELSE 1

\* the opening delimiter of a string literal: its prefix and its quotes
StringStart(lit) == SubSeq(lit, 1, PrefixLen(lit) + QuoteLen(lit))

\* string(string_start, string_content?, string_end)
StringNode(lit) ==
    LET q == QuoteLen(lit)
        s == Len(StringStart(lit))
        content == SubSeq(lit, s + 1, Len(lit) - q)
    IN [type |-> "string", text |-> lit,
        children |-> <<Leaf("string_start", SubSeq(lit, 1, s))>>
                     \o (IF content = <<>> THEN <<>>
                         ELSE <<Leaf("string_content", content)>>)
                     \o <<Leaf("string_end",
                               SubSeq(lit, Len(lit) - q + 1, Len(lit)))>>]

RECURSIVE StmtNode(_)
RECURSIVE StmtNodes(_)
BlockNode(ss) == Node("block", StmtNodes(ss))

\* the node of a statement or of a clause
StmtNode(s) ==
    CASE s.kind = "pass" -> Node("pass_statement", <<Tok("pass")>>)
      [] s.kind = "doc" -> Node("expression_statement", <<StringNode(s.arg)>>)
      [] s.kind = "doclist" ->
           \* expressions with commas between them are children of the
           \* expression statement itself
           Node("expression_statement",
                <<StringNode(s.arg), Tok(","), Ident(<<"x">>)>>)
      [] s.kind = "listdoc" ->
           Node("expression_statement",
                <<Ident(<<"x">>), Tok(","), StringNode(s.arg)>>)
      [] s.kind = "assign" ->
           Node("expression_statement",
                <<Node("assignment",
                       <<Ident(<<"x">>), Tok("="), Leaf("integer", <<"1">>)>>)>>)
      [] s.kind = "if" ->
           Node("if_statement",
                <<Tok("if"), Ident(<<"x">>), Tok(":"), BlockNode(s.body)>>
                \o StmtNodes(s.clauses))
      [] s.kind = "elif" ->
           Node("elif_clause",
                <<Tok("elif"), Ident(<<"y">>), Tok(":"), BlockNode(s.body)>>)
      [] s.kind = "else" ->
           Node("else_clause", <<Tok("else"), Tok(":"), BlockNode(s.body)>>)
      [] s.kind = "for" ->
           Node("for_statement",
                <<Tok("for"), Ident(<<"i">>), Tok("in"), Ident(<<"x","s">>),
                  Tok(":"), BlockNode(s.body)>> \o StmtNodes(s.clauses))
      [] s.kind = "while" ->
           Node("while_statement",
                <<Tok("while"), Ident(<<"x">>), Tok(":"), BlockNode(s.body)>>
                \o StmtNodes(s.clauses))
      [] s.kind = "try" ->
           Node("try_statement",
                <<Tok("try"), Tok(":"), BlockNode(s.body)>>
                \o StmtNodes(s.clauses))
      [] s.kind = "except" ->
           Node("except_clause", <<Tok("except"), Tok(":"), BlockNode(s.body)>>)
      [] s.kind = "with" ->
           Node("with_statement",
                <<Tok("with"),
                  Node("with_clause", <<Node("with_item", <<Ident(<<"x">>)>>)>>),
                  Tok(":"), BlockNode(s.body)>>)
      [] s.kind = "def" ->
           Node("function_definition",
                <<Tok("def"), Ident(<<"f">>),
                  Node("parameters", <<Tok("("), Tok(")")>>),
                  Tok(":"), BlockNode(s.body)>>)
      [] s.kind = "class" ->
           Node("class_definition",
                <<Tok("class"), Ident(<<"C">>), Tok(":"), BlockNode(s.body)>>)

StmtNodes(ss) == [i \in 1..Len(ss) |-> StmtNode(ss[i])]

\* the comment nodes of the prelude: empty and blank lines leave no node
RECURSIVE CommentNodes(_)
CommentNodes(pre) ==
    IF pre = <<>> THEN <<>>
    ELSE (IF pre[1] = "comment"
          THEN <<Leaf("comment", PreLine("comment"))>> ELSE <<>>)
         \o CommentNodes(Tail(pre))

\* tree.root_node of the parse of a source
Parse(src) == Node("module", CommentNodes(src.pre) \o StmtNodes(src.stmts))

(***************************************************************************)
(* Floating point.  math.log2 and math.log are tabulated to twelve decimal *)
(* places for the arguments the model reaches: 1..TableSize and the        *)
(* LargeArgs.  A number x is the pair [hi, lo] with                        *)
(* 10^12 * x = 10^6 * hi + lo and 0 <= lo < 10^6 (hi alone is x in         *)
(* millionths, rounded down).  A float that round(x, 2) produces is kept   *)
(* as the integer 100 * x.                                                 *)
(***************************************************************************)
LargeArgs == {1000, 100000}

\* math.log2(k)
Log2Table ==
  <<
     0, 1000000, 1584962, 2000000, 2321928, 2584962, 2807354, 3000000,
     3169925, 3321928, 3459431, 3584962, 3700439, 3807354, 3906890,
     4000000, 4087462, 4169925, 4247927, 4321928, 4392317, 4459431,
     4523561, 4584962, 4643856, 4700439, 4754887, 4807354, 4857980,
     4906890, 4954196, 5000000, 5044394, 5087462, 5129283, 5169925,
     5209453, 5247927, 5285402, 5321928, 5357552, 5392317, 5426264,
     5459431, 5491853, 5523561, 5554588, 5584962
  >>
Log2Low ==
  <<
     0, 0, 500721, 0, 94887, 500721, 922058, 0, 1442, 94887, 618637,
     500721, 718141, 922058, 595609, 0, 841250, 1442, 513444, 94887,
     422779, 618637, 956057, 500721, 189775, 718141, 502163, 922058,
     995128, 595609, 310387, 0, 119358, 841250, 16945, 1442, 365629,
     513444, 218862, 94887, 4618, 422779, 754702, 618637, 96330, 956057,
     851678, 500721
  >>
Log2(k) ==
    CASE k \in 1..Len(Log2Table) -> [hi |-> Log2Table[k], lo |-> Log2Low[k]]
      [] k = 1000 -> [hi |-> 9965784, lo |-> 284662]
      [] k = 100000 -> [hi |-> 16609640, lo |-> 474437]

\* 5.2 * math.log(k): the volume term of the index
Ln52Table ==
  <<
     0, 3604365, 5712783, 7208730, 8369077, 9317149, 10118732, 10813096,
     11425567, 11973442, 12469055, 12921514, 13337736, 13723098,
     14081861, 14417461, 14732709, 15029933, 15311082, 15577807,
     15831516, 16073420, 16304569, 16525879, 16738154, 16942101,
     17138351, 17327463, 17509938, 17686226, 17856733, 18021826,
     18181839, 18337074, 18487809, 18634298, 18776773, 18915448,
     19050520, 19182173, 19310574, 19435882, 19558240, 19677786,
     19794644, 19908935, 20020767, 20130245
  >>
Ln52Low ==
  <<
     0, 338912, 901074, 677823, 144657, 239986, 775088, 16735, 802148,
     483569, 418552, 578898, 658800, 113999, 45731, 355647, 389092,
     141060, 691665, 822481, 676162, 757463, 922832, 917809, 289315,
     997712, 703223, 452911, 315930, 384643, 463323, 694559, 319626,
     728004, 919745, 479972, 145750, 30577, 559874, 161392, 746862,
     15074, 601607, 96375, 946806, 261743, 528892, 256721
  >>
Ln52(k) ==
    CASE k \in 1..Len(Ln52Table) -> [hi |-> Ln52Table[k], lo |-> Ln52Low[k]]
      [] k = 1000 -> [hi |-> 35920327, lo |-> 450707]
      [] k = 100000 -> [hi |-> 59867212, lo |-> 417845]

\* 5.2 * math.log(math.log2(k)), for k >= 2 (0 stands at k = 1)
LnLog52Table ==
  <<
     0, 0, 2394915, 3604365, 4380469, 4938497, 5367662, 5712783, 5999281,
     6242835, 6453742, 6639089, 6803948, 6952060, 7086257, 7208730,
     7321207, 7425069, 7521442, 7611248, 7695256, 7774110, 7848358,
     7918466, 7984834, 8047811, 8107699, 8164764, 8219239, 8271330,
     8321221, 8369077, 8415043, 8459252, 8501822, 8542862, 8582469,
     8620732, 8657733, 8693545, 8728237, 8761871, 8794505, 8826192,
     8856981, 8886919, 8916046, 8944404
  >>
LnLog52Low ==
  <<
     0, 0, 890631, 338912, 162726, 207094, 202032, 901074, 229543,
     902314, 378228, 672524, 607715, 449667, 430372, 677823, 115854,
     861993, 344539, 428922, 267617, 854346, 579757, 20339, 501637,
     519234, 791706, 507153, 176173, 398673, 776008, 144657, 266878,
     83417, 610508, 546006, 636187, 844472, 355291, 440033, 207040,
     253652, 235163, 362975, 842189, 257208, 912515, 134714
  >>
LnLog52(k) ==
    CASE k \in 1..Len(LnLog52Table) -> [hi |-> LnLog52Table[k], lo |-> LnLog52Low[k]]
      [] k = 1000 -> [hi |-> 11955619, lo |-> 803388]
      [] k = 100000 -> [hi |-> 14611913, lo |-> 46971]

\* 16.2 * math.log(k): the lines-of-code term of the index
Ln162Table ==
  <<
     0, 11228984, 17797519, 22457968, 26072894, 29026503, 31523744,
     33686952, 35595038, 37301878, 38845903, 40255487, 41552179,
     42752728, 43870413, 44915937, 45898056, 46824022, 47699911,
     48530862, 49321263, 50074887, 50795006, 51484472, 52145788,
     52781163, 53392557, 53981713, 54550192, 55099397, 55630592,
     56144921, 56643422, 57127040, 57596638, 58053006, 58496870,
     58928895, 59349698, 59759847, 60159867, 60550247, 60931441,
     61303872, 61667932, 62023990, 62372391, 62713456
  >>
Ln162Low ==
  <<
     0, 325071, 76423, 650142, 181432, 401494, 414696, 975213, 152847,
     506504, 419334, 726566, 590877, 739767, 257856, 300284, 173711,
     477918, 462496, 831575, 491119, 744405, 298052, 51637, 362865,
     915948, 229270, 64838, 445781, 582927, 712659, 625356, 495757,
     498782, 596129, 802989, 184836, 787567, 667300, 156646, 480610,
     816191, 874236, 69476, 334279, 623123, 147703, 376708
  >>
Ln162(k) ==
    CASE k \in 1..Len(Ln162Table) -> [hi |-> Ln162Table[k], lo |-> Ln162Low[k]]
      [] k = 1000 -> [hi |-> 111905635, lo |-> 519511]
      [] k = 100000 -> [hi |-> 186509392, lo |-> 532518]

\* the sum of two numbers
PairAdd(a, b) ==
    [hi |-> a.hi + b.hi + (a.lo + b.lo) \div 1000000,
     lo |-> (a.lo + b.lo) % 1000000]

\* the whole number of millionths m less the number a
PairFrom(m, a) ==
    [hi |-> m - a.hi - (IF a.lo > 0 THEN 1 ELSE 0),
     lo |-> (1000000 - a.lo) % 1000000]

\* n times the number a, n a natural number
PairTimes(n, a) ==
    [hi |-> n * a.hi + (n * a.lo) \div 1000000,
     lo |-> (n * a.lo) % 1000000]

\* the number a, taken in millionths, over y and rounded to the nearest
\* integer (ties to even), y > 0 and even
RoundPair(a, y) ==
    LET q == a.hi \div y
        r == a.hi % y
    IN IF 2 * r > y \/ (2 * r = y /\ (a.lo > 0 \/ q % 2 = 1))
       THEN q + 1 ELSE q

\* the arguments the tables above cover
TableArgs == (1..Len(Log2Table)) \cup LargeArgs

\* x / y rounded to the nearest integer (ties to even), for x >= 0, y > 0
RoundDiv(x, y) ==
    LET q == x \div y
        r == x % y
    IN IF 2 * r > y \/ (2 * r = y /\ q % 2 = 1) THEN q + 1 ELSE q

Max(a, b) == IF a >= b THEN a ELSE b
Min(a, b) == IF a <= b THEN a ELSE b

RECURSIVE SumSeq(_)
SumSeq(s) == IF s = <<>> THEN 0 ELSE s[1] + SumSeq(Tail(s))

\* the lists of a sequence of lists, one after the other
RECURSIVE Flatten(_)
Flatten(lists) ==
    IF lists = <<>> THEN <<>> ELSE lists[1] \o Flatten(Tail(lists))

Range(s) == {s[i] : i \in 1..Len(s)}

(***************************************************************************)
(* Strings: str.strip, str.startswith, str.endswith and slices.            *)
(***************************************************************************)
\* the characters str.strip removes (those c with c.isspace()).  The ones a
\* string of TLA+ cannot hold are written by their code point, one string
\* for one character.
Whitespace ==
    {" ", "\t", "\n", "\r", "\f",
     "U+000B", "U+001C", "U+001D", "U+001E", "U+001F", "U+0085",
     "U+00A0", "U+1680", "U+2000", "U+2001", "U+2002", "U+2003",
     "U+2004", "U+2005", "U+2006", "U+2007", "U+2008", "U+2009",
     "U+200A", "U+2028", "U+2029", "U+202F", "U+205F", "U+3000"}

RECURSIVE LStrip(_)
LStrip(t) == IF t # <<>> /\ t[1] \in Whitespace THEN LStrip(Tail(t)) ELSE t

RECURSIVE RStrip(_)
RStrip(t) ==
    IF t # <<>> /\ t[Len(t)] \in Whitespace
    THEN RStrip(SubSeq(t, 1, Len(t) - 1)) ELSE t

Strip(t) == RStrip(LStrip(t))

StartsWith(t, p) == Len(t) >= Len(p) /\ SubSeq(t, 1, Len(p)) = p
EndsWith(t, p) == Len(t) >= Len(p) /\ SubSeq(t, Len(t) - Len(p) + 1, Len(t)) = p

\* t[a:-b]
Slice(t, a, b) == IF a + b >= Len(t) THEN <<>> ELSE SubSeq(t, a + 1, Len(t) - b)

\* a node type as text (str and the decoded node text meet in one list)
TypeText(t) ==
    CASE t = "binary_operator" ->
           <<"b","i","n","a","r","y","_","o","p","e","r","a","t","o","r">>
      [] t = "unary_operator" ->
           <<"u","n","a","r","y","_","o","p","e","r","a","t","o","r">>
      [] t = "comparison_operator" ->
           <<"c","o","m","p","a","r","i","s","o","n","_","o","p","e","r","a","t","o","r">>
      [] t = "boolean_operator" ->
           <<"b","o","o","l","e","a","n","_","o","p","e","r","a","t","o","r">>
      [] t = "augmented_assignment" ->
           <<"a","u","g","m","e","n","t","e","d","_","a","s","s","i","g","n","m","e","n","t">>
      [] t = "assignment" ->
           <<"a","s","s","i","g","n","m","e","n","t">>
      [] t = "not_operator" ->
           <<"n","o","t","_","o","p","e","r","a","t","o","r">>
      [] t = "identifier" ->
           <<"i","d","e","n","t","i","f","i","e","r">>
      [] t = "integer" ->
           <<"i","n","t","e","g","e","r">>
      [] t = "float" ->
           <<"f","l","o","a","t">>
      [] t = "string" ->
           <<"s","t","r","i","n","g">>
      [] t = "true" ->
           <<"t","r","u","e">>
      [] t = "false" ->
           <<"f","a","l","s","e">>
      [] t = "none" ->
           <<"n","o","n","e">>

(***************************************************************************)
(* The tree cursor (tree.walk(), parser.py:345): the path of child indices *)
(* from the root to the node the cursor is on.  Each move answers whether  *)
(* it moved.                                                               *)
(***************************************************************************)
RECURSIVE NodeAt(_, _)
NodeAt(root, path) ==
    IF path = <<>> THEN root ELSE NodeAt(root.children[path[1]], Tail(path))

Front(path) == SubSeq(path, 1, Len(path) - 1)

goto_first_child(root, c) ==
    IF Len(NodeAt(root, c).children) > 0
    THEN [ok |-> TRUE, cursor |-> Append(c, 1)]
    ELSE [ok |-> FALSE, cursor |-> c]

goto_next_sibling(root, c) ==
    IF c # <<>> /\ c[Len(c)] < Len(NodeAt(root, Front(c)).children)
    THEN [ok |-> TRUE, cursor |-> Append(Front(c), c[Len(c)] + 1)]
    ELSE [ok |-> FALSE, cursor |-> c]

goto_parent(root, c) ==
    IF c # <<>>
    THEN [ok |-> TRUE, cursor |-> Front(c)]
    ELSE [ok |-> FALSE, cursor |-> c]

(***************************************************************************)
(* The counting loop of analyze (parser.py:349-366).                       *)
(***************************************************************************)
\* The inner "while True" (359-363): climb until a parent has a next
\* sibling, or the root is passed.  Both ways out are a break, so the
\* loop's else clause (364-365) is never run: broke is TRUE on every exit.
RECURSIVE InnerLoop(_, _)
InnerLoop(root, c) ==
    LET p == goto_parent(root, c)
    IN IF ~p.ok THEN [cursor |-> p.cursor, broke |-> TRUE]
       ELSE LET s == goto_next_sibling(root, p.cursor)
            IN IF s.ok THEN [cursor |-> s.cursor, broke |-> TRUE]
               ELSE InnerLoop(root, p.cursor)

\* a pass that counts the node under the cursor a second time
LoopBodyCountsTwice(root, c, nc, cs) ==
    LET hit == IF NodeAt(root, c).type \in CONTROL_FLOW_NODES THEN 1 ELSE 0
        counted == [node_count |-> nc + 2,
                    complexity_score |-> cs + 2 * hit]
        child == goto_first_child(root, c)
        sibling == goto_next_sibling(root, c)
        inner == InnerLoop(root, c)
    IN CASE child.ok -> counted @@ [cursor |-> child.cursor, again |-> TRUE]
         [] ~child.ok /\ sibling.ok ->
              counted @@ [cursor |-> sibling.cursor, again |-> TRUE]
         [] OTHER ->
              counted @@ [cursor |-> inner.cursor, again |-> ~inner.broke]

\* One pass through the body of the outer "while True" (350-366): the
\* counters after it, where the cursor stands, and whether the loop goes on.
LoopBody(root, c, nc, cs) ==
    LET counted == [node_count |-> nc + 1,
                    complexity_score |->
                        IF NodeAt(root, c).type \in CONTROL_FLOW_NODES
                        THEN cs + 1 ELSE cs]
        child == goto_first_child(root, c)
        sibling == goto_next_sibling(root, c)
        inner == InnerLoop(root, c)
    IN CASE child.ok -> counted @@ [cursor |-> child.cursor, again |-> TRUE]
         [] ~child.ok /\ sibling.ok ->
              counted @@ [cursor |-> sibling.cursor, again |-> TRUE]
         [] OTHER ->
              \* "else: continue" belongs to a loop that ended without break
              counted @@ [cursor |-> inner.cursor, again |-> ~inner.broke]

(***************************************************************************)
(* _calculate_cognitive_complexity (parser.py:102-159).                    *)
(***************************************************************************)
\* every block, the body of a function or class too, is one level deeper
ChildDepthEveryBlock(node, child, nesting_depth) ==
    IF child.type = "block" THEN nesting_depth + 1 ELSE nesting_depth

\* a clause is taken for a level of nesting, like a block
ChildDepthClauseDeeper(node, child, nesting_depth) ==
    IF child.type = "block"
    THEN IF node.type \in ENCAPSULATION_NODES
         THEN nesting_depth
         ELSE nesting_depth + 1
    ELSE IF child.type \in {"else_clause", "elif_clause", "except_clause"}
         THEN nesting_depth + 1
         ELSE nesting_depth

\* the nesting depth traverse hands to a child of node (148-156)
ChildDepth(node, child, nesting_depth) ==
    IF child.type = "block"
    THEN IF node.type \in ENCAPSULATION_NODES
         THEN nesting_depth
         ELSE nesting_depth + 1
    ELSE nesting_depth

\* the nesting penalty alone, without the base increment
IncrementPenaltyOnly(nesting_depth) == nesting_depth

\* what a control-flow node adds to complexity (141)
Increment(nesting_depth) == 1 + nesting_depth

RECURSIVE WalkShared(_, _, _)
RECURSIVE WalkSharedChildren(_, _, _, _)
\* a walker that keeps the depth in one shared variable, raises it when it
\* enters the block of a control structure and never lowers it: its
\* additions and the depth it leaves behind
WalkShared(node, path, depth) ==
    LET below == WalkSharedChildren(node, path, depth, 1)
    IN [adds |-> (IF node.type \in CONTROL_FLOW_NODES
                  THEN <<[path |-> path, add |-> 1 + depth]>>
                  ELSE <<>>) \o below.adds,
        depth |-> below.depth]

WalkSharedChildren(node, path, depth, i) ==
    IF i > Len(node.children) THEN [adds |-> <<>>, depth |-> depth]
    ELSE LET child == node.children[i]
             entered == IF child.type = "block"
                           /\ node.type \notin ENCAPSULATION_NODES
                        THEN depth + 1 ELSE depth
             done == WalkShared(child, Append(path, i), entered)
             rest == WalkSharedChildren(node, path, done.depth, i + 1)
         IN [adds |-> done.adds \o rest.adds, depth |-> rest.depth]

\* the additions of the walker with the shared depth
traverseSharedDepth(node, path, nesting_depth) ==
    WalkShared(node, path, nesting_depth).adds

\* traverse(node, nesting_depth) (135-156): the additions it makes to
\* complexity, in the order it makes them, each with the path of its node
RECURSIVE traverse(_, _, _)
RECURSIVE TraverseChildren(_, _, _)
traverse(node, path, nesting_depth) ==
    (IF node.type \in CONTROL_FLOW_NODES
     THEN <<[path |-> path, add |-> Increment(nesting_depth)]>>
     ELSE <<>>)
    \o TraverseChildren(node, path, nesting_depth)

\* "for child in node.children" (144-156): the additions of the children,
\* child after child
TraverseChildren(node, path, nesting_depth) ==
    Flatten([i \in 1..Len(node.children) |->
                traverse(node.children[i], Append(path, i),
                         ChildDepth(node, node.children[i], nesting_depth))])

\* the additions of the whole walk: traverse(root, 0) (158)
CognitiveAdds(root) == traverse(root, <<>>, 0)

\* the value returned (159) when the accumulator started at start (133)
calculate_cognitive_complexity(root, start) ==
    LET adds == CognitiveAdds(root)
    IN start + SumSeq([i \in 1..Len(adds) |-> adds[i].add])

(***************************************************************************)
(* _calculate_halstead_metrics (parser.py:161-213).                        *)
(***************************************************************************)
\* what visiting one node appends to operators (183-188)
OperatorOf(node) ==
    IF node.type \in OPERATOR_NODES THEN <<TypeText(node.type)>>
    ELSE IF node.type = "keyword" /\ node.text # <<>>
              /\ node.text \in OPERATOR_KEYWORDS
         THEN <<node.text>>
         ELSE <<>>

\* the operand recorded by its kind, as the operators are
OperandOfKind(node) ==
    IF node.type \in OPERAND_NODES THEN <<TypeText(node.type)>> ELSE <<>>

\* what visiting one node appends to operands (191-193)
OperandOf(node) ==
    IF node.type \in OPERAND_NODES
    THEN <<IF node.text # <<>> THEN node.text ELSE TypeText(node.type)>>
    ELSE <<>>

\* traverse(node) (181-196): the operators and operands appended, in order,
\* the node's own before those of its children, child after child
RECURSIVE HalsteadTraverse(_)
HalsteadTraverse(node) ==
    LET below == [i \in 1..Len(node.children) |->
                     HalsteadTraverse(node.children[i])]
    IN [operators |->
            OperatorOf(node)
                \o Flatten([i \in 1..Len(below) |-> below[i].operators]),
        operands |->
            OperandOf(node)
                \o Flatten([i \in 1..Len(below) |-> below[i].operands])]

\* The float program_length * log2(vocabulary) is kept as the pair; 0.0 is
\* the pair with vocabulary 1.
ZeroVolume == [length |-> 0, vocabulary |-> 1]

\* the volume with length and vocabulary taken one for the other
HalsteadVolumeSwapped(ops, opnds) ==
    LET vocabulary == Cardinality(Range(ops)) + Cardinality(Range(opnds))
        program_length == Len(ops) + Len(opnds)
    IN IF vocabulary = 0 \/ program_length = 1 THEN ZeroVolume
       ELSE [length |-> vocabulary, vocabulary |-> program_length]

\* the volume computed from the two lists (200-213)
HalsteadVolume(ops, opnds) ==
    LET n1 == Len(ops)
        n2 == Len(opnds)
        unique_n1 == Cardinality(Range(ops))
        unique_n2 == Cardinality(Range(opnds))
        vocabulary == unique_n1 + unique_n2
        program_length == n1 + n2
    IN IF vocabulary = 0 THEN ZeroVolume
       ELSE IF vocabulary = 1 THEN ZeroVolume
       ELSE [length |-> program_length, vocabulary |-> vocabulary]

\* (volume, n1, n2) and the lists, which started as ops0 and opnds0 (178-179)
calculate_halstead_metrics(root, ops0, opnds0) ==
    LET walk == HalsteadTraverse(root)
        ops == ops0 \o walk.operators
        opnds == opnds0 \o walk.operands
    IN [volume |-> HalsteadVolume(ops, opnds),
        n1 |-> Len(ops), n2 |-> Len(opnds),
        operators |-> ops, operands |-> opnds]

\* round(halstead_volume, 2), in hundredths (387)
RoundVolume(v) == RoundPair(PairTimes(v.length, Log2(v.vocabulary)), 10000)

(***************************************************************************)
(* _calculate_maintainability_index (parser.py:215-247), in hundredths.    *)
(***************************************************************************)
\* 5.2 * math.log(max(halstead_volume, 1.0)) (240, 244)
VolumeTerm(v) ==
    IF v.vocabulary <= 1 \/ v.length = 0 THEN [hi |-> 0, lo |-> 0]
    ELSE PairAdd(Ln52(v.length), LnLog52(v.vocabulary))

\* the raw index with the complexity taken as it comes
MiRawNoComplexityFloor(halstead_volume, cyclomatic_complexity, lines_of_code) ==
    LET loc == Max(lines_of_code, 1)
    IN PairFrom(171000000 - 230000 * cyclomatic_complexity,
                PairAdd(VolumeTerm(halstead_volume), Ln162(loc)))

\* mi_raw (241-244)
MiRaw(halstead_volume, cyclomatic_complexity, lines_of_code) ==
    LET loc == Max(lines_of_code, 1)
        cc == Max(cyclomatic_complexity, 1)
    IN PairFrom(171000000 - 230000 * cc,
                PairAdd(VolumeTerm(halstead_volume), Ln162(loc)))

\* the raw index passed on without the floor at 0
MiNormalizedNoFloor(mi_raw) == mi_raw

\* max(0, mi_raw * 100 / 171) (245), in hundredths and not yet rounded:
\* the numerator, in millionths, of the fraction over 17100
MiNormalized(mi_raw) == IF mi_raw.hi < 0 THEN [hi |-> 0, lo |-> 0] ELSE mi_raw

calculate_maintainability_index(halstead_volume, cyclomatic_complexity, lines_of_code) ==
    LET mi_raw == MiRaw(halstead_volume, cyclomatic_complexity, lines_of_code)
        mi_normalized == MiNormalized(mi_raw)
    IN Min(10000, RoundPair(mi_normalized, 17100))

(***************************************************************************)
(* _count_lines_of_code (parser.py:249-266).                               *)
(***************************************************************************)
RECURSIVE CountCodeLines(_)
CountCodeLines(lines) ==
    IF lines = <<>> THEN 0
    ELSE LET stripped == Strip(lines[1])
         IN (IF stripped # <<>> /\ ~StartsWith(stripped, <<"#">>)
             THEN 1 ELSE 0) + CountCodeLines(Tail(lines))

\* the count without its floor at 1
count_lines_of_code_no_floor(lines) == CountCodeLines(lines)

count_lines_of_code(lines) == Max(CountCodeLines(lines), 1)

(***************************************************************************)
(* _extract_module_docstring (parser.py:268-307).  The description is a    *)
(* sequence: empty for None, else the one text.                            *)
(***************************************************************************)
None == <<>>
Some(t) == <<t>>

TripleDouble == <<"\"", "\"", "\"">>
TripleSingle == <<"'", "'", "'">>

\* the text without its quotes (293-301)
StripQuotes(text) ==
    IF StartsWith(text, TripleDouble) /\ EndsWith(text, TripleDouble)
    THEN Strip(Slice(text, 3, 3))
    ELSE IF StartsWith(text, TripleSingle) /\ EndsWith(text, TripleSingle)
    THEN Strip(Slice(text, 3, 3))
    ELSE IF StartsWith(text, <<"\"">>) /\ EndsWith(text, <<"\"">>)
    THEN Strip(Slice(text, 1, 1))
    ELSE IF StartsWith(text, <<"'">>) /\ EndsWith(text, <<"'">>)
    THEN Strip(Slice(text, 1, 1))
    ELSE Strip(text)

\* the loop over the children of the expression statement (286-301)
RECURSIVE SubchildLoop(_, _)
SubchildLoop(child, j) ==
    IF j > Len(child.children) THEN None
    ELSE IF child.children[j].type = "string" /\ child.children[j].text # <<>>
    THEN Some(StripQuotes(child.children[j].text))
    ELSE SubchildLoop(child, j + 1)

\* the loop going on past a statement that is no expression statement
RECURSIVE ChildLoopPastStatements(_, _)
ChildLoopPastStatements(root, i) ==
    IF i > Len(root.children) THEN None
    ELSE IF root.children[i].type = "expression_statement"
    THEN SubchildLoop(root.children[i], 1)
    ELSE ChildLoopPastStatements(root, i + 1)

\* the loop over the children of the module (283-307)
RECURSIVE ChildLoop(_, _)
ChildLoop(root, i) ==
    IF i > Len(root.children) THEN None
    ELSE IF root.children[i].type = "expression_statement"
    THEN SubchildLoop(root.children[i], 1)
    ELSE IF root.children[i].type # "comment" THEN None
    ELSE ChildLoop(root, i + 1)

extract_module_docstring(root) == ChildLoop(root, 1)

(***************************************************************************)
(* The text handed to analyze, and str.split("\n").                        *)
(***************************************************************************)
RECURSIVE Join(_)
Join(lines) ==
    IF Len(lines) = 1 THEN lines[1]
    ELSE lines[1] \o <<"\n">> \o Join(Tail(lines))

SourceText(src) == Join(SourceLines(src))

\* the lines of a text: one more than it has newlines, each the characters
\* between two newlines; line is what the first line starts with
Split(text, line) ==
    LET newlines == {i \in 1..Len(text) : text[i] = "\n"}
        Newline(k) ==
            IF k = 0 THEN 0
            ELSE IF k > Cardinality(newlines) THEN Len(text) + 1
            ELSE CHOOSE i \in newlines :
                     Cardinality({j \in newlines : j < i}) = k - 1
    IN [k \in 1..(Cardinality(newlines) + 1) |->
           (IF k = 1 THEN line ELSE <<>>)
               \o SubSeq(text, Newline(k - 1) + 1, Newline(k) - 1)]

(***************************************************************************)
(* State.                                                                  *)
(***************************************************************************)
VARIABLES
    pc,                \* "idle", "walk" (in the counting loop), "walked"
                       \* (loop left), "done" (analyze returned), "mi_done"
    source,            \* the source of the current call of analyze
    tree,              \* the root of its syntax tree
    cursor,            \* the tree cursor
    node_count,        \* locals of analyze (346-347)
    complexity_score,
    complexity,        \* the accumulator of the cognitive walker (133)
    operators,         \* the lists of the Halstead walker (178-179)
    operands,
    result,            \* the record analyze returned
    first,             \* the first call made and what it returned
    calls,             \* tracked calls that returned: 0, 1, or 2 for more
    mi_call,           \* a direct call of _calculate_maintainability_index
    frames,            \* Python frames in use during a call on a nest source
    frame,             \* the running frame of a recursive walker on it
    tasks,             \* the process_file coroutines of scan_directory
    running,           \* the coroutine that is inside parser.analyze, or 0
    rows,              \* the FileAnalysis table
    request,           \* the POST /analyze request being handled
    latest,            \* what the latest request for each filename returned
    directory,         \* the root and the entries of the directory scanned
    files_to_process,  \* scan_directory's list of the files it will analyse
    results,           \* what scan_directory returned
    solve,             \* the frame of a call of JanitorAgent.solve
    llm_requests,      \* the requests the call sent to the LLM, in order
    sandbox_runs,      \* the runs of the sandbox the call made, in order
    project            \* the frame of a call of scan_project (POST /scan)

\* the fix agent
janitorVars == <<solve, llm_requests, sandbox_runs>>

\* the /scan endpoint
postVars == <<project>>

\* the directory walk of scan_directory
extVars == <<directory, files_to_process, results>>

\* the callers of the engine: the scanner and the /analyze endpoint
hostVars == <<tasks, running, rows, request, latest, extVars, janitorVars, postVars>>

\* the state outside one call of analyze on an enumerated source
otherVars == <<frames, frame, hostVars>>

vars == <<pc, source, tree, cursor, node_count, complexity_score, complexity,
          operators, operands, result, first, calls, mi_call, otherVars>>

NoSource == [pre |-> <<>>, stmts |-> <<>>]
NoTree == Leaf("", <<>>)
NoResult == <<>>

\* sources with lines that hold a form feed and nothing else: alone, twice,
\* and before "x = 1"
FormFeedSources ==
    {[pre |-> <<"formfeed">>, stmts |-> <<>>],
     [pre |-> <<"formfeed", "formfeed">>, stmts |-> <<>>],
     [pre |-> <<"formfeed">>,
      stmts |-> <<Assign>>]}

\* the statements of the sources analyze is called on, by line count
AnalyzeStmts == StmtTable(MaxLines)
HistSources == SourcesUpTo(MaxHistLines)

\* the string literals of the sources that are one string statement:
\* '''Hi''', "Hi", 'Hi', """ Hi """, "", r"""Hi""", "'Hi'" and
\* """Handles widgets."""
DocLits ==
    {<<"'","'","'","H","i","'","'","'">>,
     <<"\"","\f","H","i","\"">>,
     <<"\"","H","i","\"">>,
     <<"'","H","i","'">>,
     <<"\"","\"","\""," ","H","i"," ","\"","\"","\"">>,
     <<"\"","\"">>,
     <<"r","\"","\"","\"","H","i","\"","\"","\"">>,
     <<"\"","'","H","i","'","\"">>,
     <<"\"","\"","\"","H","a","n","d","l","e","s"," ","w","i","d","g","e","t","s",".","\"","\"","\"">>}

DocSource(lit) == [pre |-> <<>>, stmts |-> <<Doc(lit)>>]

\* the arguments of the direct calls of _calculate_maintainability_index
MiVolumes ==
    {ZeroVolume} \cup
    {[length |-> l, vocabulary |-> v] :
        l \in {2, 40, 100000}, v \in {2, 40, 1000}}
MiComplexities == {0, 1, 2, 50, 800}
MiLines == {0, 1, 2, 40, 1000, 100000}

\* the walker's accumulator kept from the call before
StaleFrame ==
    [node_count |-> 0, complexity_score |-> 0, complexity |-> complexity,
     operators |-> <<>>, operands |-> <<>>]

\* a frame of analyze and its helpers: every local starts afresh
NewFrame ==
    [node_count |-> 0, complexity_score |-> 0, complexity |-> 0,
     operators |-> <<>>, operands |-> <<>>]

\* the record returned for empty input (330-339)
EmptyResult ==
    [complexity_score |-> 0, node_count |-> 0, cognitive_complexity |-> 0,
     halstead_volume |-> 0, maintainability_index |-> 10000,
     sqale_debt_hours |-> 0, lines_of_code |-> 0, description |-> None]

\* the test for the empty string alone
IsEmptyInputNoStrip(text) == text = <<>>

\* "not source_code or not source_code.strip()" (329)
IsEmptyInput(text) == text = <<>> \/ Strip(text) = <<>>

\* the debt rounded to one decimal
SqaleDebtOneDecimal(cognitive_complexity) ==
    RoundDiv(cognitive_complexity * 15, 10) * 10

\* round(cognitive_complexity * 0.15, 2), in hundredths (378)
SqaleDebt(cognitive_complexity) == RoundDiv(cognitive_complexity * 15, 1)

Init ==
    /\ pc = "idle"
    /\ source = NoSource
    /\ tree = NoTree
    /\ cursor = <<>>
    /\ node_count = 0
    /\ complexity_score = 0
    /\ complexity = 0
    /\ operators = <<>>
    /\ operands = <<>>
    /\ result = NoResult
    /\ first = <<>>
    /\ calls = 0
    /\ mi_call = <<>>
    /\ frames = 0
    /\ frame = <<>>
    /\ tasks = <<>>
    /\ running = 0
    /\ rows = {}
    /\ request = <<>>
    /\ latest = <<>>
    /\ directory = <<>>
    /\ files_to_process = <<>>
    /\ results = <<>>
    /\ solve = [pc |-> "idle"]
    /\ llm_requests = <<>>
    /\ sandbox_runs = <<>>
    /\ project = [pc |-> "idle"]

\* the first call and its result are remembered when calls are tracked
Remember(track, src, res) ==
    /\ first' = IF track /\ first = <<>>
                THEN <<[source |-> src, result |-> res]>> ELSE first
    /\ calls' = IF track THEN Min(calls + 1, 2) ELSE calls

\* analyze(source_code) is called (309-347), on a new CodeParser or, when
\* calls are tracked, on the one that served the call before: it returns at
\* once on empty input, and otherwise parses and sets the cursor on the root
Analyze(src, track) ==
    /\ pc = "idle" \/ (track /\ pc = "done")
    /\ source' = src
    /\ mi_call' = <<>>
    /\ cursor' = <<>>
    /\ node_count' = NewFrame.node_count
    /\ complexity_score' = NewFrame.complexity_score
    /\ complexity' = NewFrame.complexity
    /\ operators' = NewFrame.operators
    /\ operands' = NewFrame.operands
    /\ IF IsEmptyInput(SourceText(src))
       THEN /\ tree' = NoTree
            /\ result' = EmptyResult
            /\ Remember(track, src, EmptyResult)
            /\ pc' = "done"
       ELSE /\ tree' = Parse(src)
            /\ result' = NoResult
            /\ UNCHANGED <<first, calls>>
            /\ pc' = "walk"

\* one pass through the counting loop (349-366)
Walk ==
    /\ pc = "walk"
    /\ LET b == LoopBody(tree, cursor, node_count, complexity_score)
       IN /\ node_count' = b.node_count
          /\ complexity_score' = b.complexity_score
          /\ cursor' = b.cursor
          /\ pc' = IF b.again THEN "walk" ELSE "walked"
    /\ UNCHANGED <<source, tree, complexity, operators, operands, result,
                   first, calls, mi_call, otherVars>>

\* the rest of analyze (368-392): the walkers, the formulas, the record
Metrics(track) ==
    /\ pc = "walked"
    /\ LET cognitive_complexity ==
               calculate_cognitive_complexity(tree, complexity)
           halstead == calculate_halstead_metrics(tree, operators, operands)
           lines_of_code ==
               count_lines_of_code(Split(SourceText(source), <<>>))
           maintainability_index ==
               calculate_maintainability_index(
                   halstead.volume, complexity_score, lines_of_code)
           res == [complexity_score |-> complexity_score,
                   node_count |-> node_count,
                   cognitive_complexity |-> cognitive_complexity,
                   halstead_volume |-> RoundVolume(halstead.volume),
                   maintainability_index |-> maintainability_index,
                   sqale_debt_hours |-> SqaleDebt(cognitive_complexity),
                   lines_of_code |-> lines_of_code,
                   description |-> extract_module_docstring(tree)]
       IN /\ complexity' = cognitive_complexity
          /\ operators' = halstead.operators
          /\ operands' = halstead.operands
          /\ result' = res
          /\ Remember(track, source, res)
    /\ pc' = "done"
    /\ UNCHANGED <<source, tree, cursor, node_count, complexity_score,
                   mi_call, otherVars>>

\* _calculate_maintainability_index is called on its own
CallMaintainabilityIndex(v, cc, loc) ==
    /\ pc = "idle"
    /\ mi_call' = <<[halstead_volume |-> v, cyclomatic_complexity |-> cc,
                     lines_of_code |-> loc,
                     returned |-> calculate_maintainability_index(v, cc, loc)]>>
    /\ pc' = "mi_done"
    /\ source' = NoSource
    /\ tree' = NoTree
    /\ cursor' = <<>>
    /\ node_count' = NewFrame.node_count
    /\ complexity_score' = NewFrame.complexity_score
    /\ complexity' = NewFrame.complexity
    /\ operators' = NewFrame.operators
    /\ operands' = NewFrame.operands
    /\ result' = NoResult
    /\ UNCHANGED <<first, calls, otherVars>>

\* the caller drops the record and the parser: the next call starts anew
Return ==
    /\ pc \in {"done", "mi_done"}
    /\ pc' = "idle"
    /\ source' = NoSource
    /\ tree' = NoTree
    /\ cursor' = <<>>
    /\ node_count' = 0
    /\ complexity_score' = 0
    /\ complexity' = 0
    /\ operators' = <<>>
    /\ operands' = <<>>
    /\ result' = NoResult
    /\ mi_call' = <<>>
    /\ UNCHANGED <<first, calls, otherVars>>

(***************************************************************************)
(* Nest sources: one line, the name x inside d pairs of parentheses.  The  *)
(* tree is a chain, module > expression_statement > d                      *)
(* parenthesized_expression > identifier, every parenthesized_expression   *)
(* holding "(", the next link and ")".  A node of the chain is named by    *)
(* its level (the module is at level 1) and its place among its siblings;  *)
(* the tree is never built as a value.  The walkers of                     *)
(* _calculate_cognitive_complexity and _calculate_halstead_metrics call    *)
(* themselves once for every child (156, 196); each call takes a Python    *)
(* frame, and Python raises RecursionError for the call that would take    *)
(* more than RecursionLimit frames.  Nothing in parser.py catches it.      *)
(* The frames the caller of analyze holds count too: frames is the number  *)
(* of levels of the limit in use, those of the caller included.            *)
(***************************************************************************)
\* sys.getrecursionlimit(), which nothing in the repository changes
RecursionLimit == 1000

\* the pairs of parentheses of the nest sources
NestDepths == {1, 2, 1000}

NestSource(d) == [pre |-> <<>>, stmts |-> <<Simple("nest", d)>>]
NestOf(src) == src.stmts[1].arg

\* the text of the nest source: d times "(", the name, d times ")"
NestText(d) ==
    [i \in 1..(2 * d + 1) |->
        IF i <= d THEN "(" ELSE IF i = d + 1 THEN "x" ELSE ")"]

\* the place of the node of the spine at a level among its siblings
SpinePlace(level) == IF level <= 3 THEN 1 ELSE 2

OnSpine(at) == at.place = SpinePlace(at.level)

ChainType(d, at) ==
    IF at.level = 1 THEN "module"
    ELSE IF at.level = 2 THEN "expression_statement"
    ELSE IF ~OnSpine(at) THEN (IF at.place = 1 THEN "(" ELSE ")")
    ELSE IF at.level = d + 3 THEN "identifier"
    ELSE "parenthesized_expression"

\* the node as the walkers read it: its type and its text
ChainNode(d, at) ==
    LET t == ChainType(d, at)
    IN IF t = "identifier" THEN Ident(<<"x">>)
       ELSE IF t \in {"(", ")"} THEN Tok(t)
       ELSE Node(t, <<>>)

\* len(node.children)
ChainChildren(d, at) ==
    IF ~OnSpine(at) \/ at.level = d + 3 THEN 0
    ELSE IF at.level <= 2 THEN 1 ELSE 3

\* the number of nodes that share the parent of the node
ChainSiblings(d, at) == IF at.level <= 3 THEN 1 ELSE 3

ChainRoot == [level |-> 1, place |-> 1]

chain_goto_first_child(d, c) ==
    IF ChainChildren(d, c) > 0
    THEN [ok |-> TRUE, cursor |-> [level |-> c.level + 1, place |-> 1]]
    ELSE [ok |-> FALSE, cursor |-> c]

chain_goto_next_sibling(d, c) ==
    IF c.place < ChainSiblings(d, c)
    THEN [ok |-> TRUE, cursor |-> [level |-> c.level, place |-> c.place + 1]]
    ELSE [ok |-> FALSE, cursor |-> c]

chain_goto_parent(d, c) ==
    IF c.level > 1
    THEN [ok |-> TRUE,
          cursor |-> [level |-> c.level - 1,
                      place |-> SpinePlace(c.level - 1)]]
    ELSE [ok |-> FALSE, cursor |-> c]

\* the inner loop of the counting loop (359-365) on the chain
RECURSIVE ChainInnerLoop(_, _)
ChainInnerLoop(d, c) ==
    LET p == chain_goto_parent(d, c)
    IN IF ~p.ok THEN [cursor |-> p.cursor, broke |-> TRUE]
       ELSE LET s == chain_goto_next_sibling(d, p.cursor)
            IN IF s.ok THEN [cursor |-> s.cursor, broke |-> TRUE]
               ELSE ChainInnerLoop(d, p.cursor)

\* one pass through the counting loop (349-366) on the chain
ChainLoopBody(d, c, nc, cs) ==
    LET counted == [node_count |-> nc + 1,
                    complexity_score |->
                        IF ChainType(d, c) \in CONTROL_FLOW_NODES
                        THEN cs + 1 ELSE cs]
        child == chain_goto_first_child(d, c)
        sibling == chain_goto_next_sibling(d, c)
        inner == ChainInnerLoop(d, c)
    IN CASE child.ok -> counted @@ [cursor |-> child.cursor, again |-> TRUE]
         [] ~child.ok /\ sibling.ok ->
              counted @@ [cursor |-> sibling.cursor, again |-> TRUE]
         [] OTHER ->
              counted @@ [cursor |-> inner.cursor, again |-> ~inner.broke]

\* the top of the tree of a nest source, which is all that
\* _extract_module_docstring reads of it
NestTop(d) ==
    Node("module",
         <<Node("expression_statement",
                <<ChainNode(d, [level |-> 3, place |-> 1])>>)>>)

\* analyze is called on a nest source by a caller that holds this many
\* levels of the recursion limit; analyze takes one more
AnalyzeNest(d, held) ==
    /\ pc = "idle"
    /\ source' = NestSource(d)
    /\ tree' = NoTree
    /\ cursor' = ChainRoot
    /\ node_count' = NewFrame.node_count
    /\ complexity_score' = NewFrame.complexity_score
    /\ complexity' = NewFrame.complexity
    /\ operators' = NewFrame.operators
    /\ operands' = NewFrame.operands
    /\ result' = NoResult
    /\ mi_call' = <<>>
    /\ frames' = held + 1
    /\ frame' = <<>>
    /\ pc' = "nest_walk"
    /\ UNCHANGED <<first, calls>>
    /\ UNCHANGED hostVars

\* one pass through the counting loop (349-366), which calls no function
\* of Python
NestWalk ==
    /\ pc = "nest_walk"
    /\ LET b == ChainLoopBody(NestOf(source), cursor, node_count,
                              complexity_score)
       IN /\ node_count' = b.node_count
          /\ complexity_score' = b.complexity_score
          /\ cursor' = b.cursor
          /\ pc' = IF b.again THEN "nest_walk" ELSE "nest_walked"
    /\ UNCHANGED <<source, tree, complexity, operators, operands, result,
                   first, calls, mi_call, frames, frame>>
    /\ UNCHANGED hostVars

\* what a walker does with the node it is called on, before its children:
\* the cognitive walker adds to complexity (139-141), the Halstead walker
\* appends to its lists (183-193)
NestEnter(walker, node, nesting_depth) ==
    IF walker = "nest_cognitive"
    THEN /\ complexity' = complexity
                + (IF node.type \in CONTROL_FLOW_NODES
                   THEN Increment(nesting_depth) ELSE 0)
         /\ UNCHANGED <<operators, operands>>
    ELSE /\ operators' = operators \o OperatorOf(node)
         /\ operands' = operands \o OperandOf(node)
         /\ UNCHANGED complexity

\* analyze calls _calculate_cognitive_complexity (369) and then
\* _calculate_halstead_metrics (370); each calls its traverse on the root
\* (158, 198): two frames more
NestStartWalker ==
    /\ pc \in {"nest_walked", "nest_cognitive_done"}
    /\ pc' = IF pc = "nest_walked" THEN "nest_cognitive" ELSE "nest_halstead"
    /\ frames' = frames + 2
    /\ frame' = [at |-> ChainRoot, next |-> 1, nesting_depth |-> 0]
    /\ NestEnter(pc', ChainNode(NestOf(source), ChainRoot), 0)
    /\ UNCHANGED <<source, tree, cursor, node_count, complexity_score, result,
                   first, calls, mi_call>>
    /\ UNCHANGED hostVars

\* traverse calls itself on the next child of its node (144-156, 195-196);
\* the call that would exceed the recursion limit raises RecursionError,
\* which leaves every traverse (one for each level down to the node), the
\* helper and analyze: the levels of the caller are left
NestCall ==
    /\ pc \in {"nest_cognitive", "nest_halstead"}
    /\ frame.next <= ChainChildren(NestOf(source), frame.at)
    /\ LET d == NestOf(source)
           child == [level |-> frame.at.level + 1, place |-> frame.next]
           depth == ChildDepth(ChainNode(d, frame.at), ChainNode(d, child),
                               frame.nesting_depth)
       IN IF frames + 1 > RecursionLimit
          THEN /\ pc' = "raised"
               /\ frames' = frames - frame.at.level - 2
               /\ frame' = <<>>
               /\ UNCHANGED <<complexity, operators, operands>>
          ELSE /\ pc' = pc
               /\ frames' = frames + 1
               /\ frame' = [at |-> child, next |-> 1, nesting_depth |-> depth]
               /\ NestEnter(pc, ChainNode(d, child), depth)
    /\ UNCHANGED <<source, tree, cursor, node_count, complexity_score, result,
                   first, calls, mi_call>>
    /\ UNCHANGED hostVars

\* traverse has called itself on every child and returns.  The frame of
\* its caller goes on after the call it made; no node of the chain is a
\* block, so that frame holds the nesting_depth it passed down
NestReturn ==
    /\ pc \in {"nest_cognitive", "nest_halstead"}
    /\ frame.next > ChainChildren(NestOf(source), frame.at)
    /\ IF frame.at.level = 1
       THEN /\ frames' = frames - 2
            /\ frame' = <<>>
            /\ pc' = IF pc = "nest_cognitive" THEN "nest_cognitive_done"
                     ELSE "nest_halstead_done"
       ELSE /\ frames' = frames - 1
            /\ frame' = [at |-> chain_goto_parent(NestOf(source),
                                                  frame.at).cursor,
                         next |-> frame.at.place + 1,
                         nesting_depth |-> frame.nesting_depth]
            /\ pc' = pc
    /\ UNCHANGED <<source, tree, cursor, node_count, complexity_score,
                   complexity, operators, operands, result, first, calls,
                   mi_call>>
    /\ UNCHANGED hostVars

\* the rest of analyze (371-392) on a nest source
NestMetrics ==
    /\ pc = "nest_halstead_done"
    /\ LET d == NestOf(source)
           lines_of_code == count_lines_of_code(Split(NestText(d), <<>>))
           volume == HalsteadVolume(operators, operands)
       IN result' =
            [complexity_score |-> complexity_score,
             node_count |-> node_count,
             cognitive_complexity |-> complexity,
             halstead_volume |-> RoundVolume(volume),
             maintainability_index |->
                 calculate_maintainability_index(
                     volume, complexity_score, lines_of_code),
             sqale_debt_hours |-> SqaleDebt(complexity),
             lines_of_code |-> lines_of_code,
             description |-> extract_module_docstring(NestTop(d))]
    /\ frames' = frames - 1
    /\ pc' = "nest_done"
    /\ UNCHANGED <<source, tree, cursor, node_count, complexity_score,
                   complexity, operators, operands, first, calls, mi_call,
                   frame>>
    /\ UNCHANGED hostVars

\* the caller has the record, or the exception, and drops the parser
NestDrop ==
    /\ pc \in {"nest_done", "raised"}
    /\ pc' = "idle"
    /\ source' = NoSource
    /\ tree' = NoTree
    /\ cursor' = <<>>
    /\ node_count' = 0
    /\ complexity_score' = 0
    /\ complexity' = 0
    /\ operators' = <<>>
    /\ operands' = <<>>
    /\ result' = NoResult
    /\ mi_call' = <<>>
    /\ frames' = 0
    /\ frame' = <<>>
    /\ UNCHANGED <<first, calls>>
    /\ UNCHANGED hostVars

\* analyze is called on a source of at most MaxLines text lines
AnalyzeCall ==
    /\ pc = "idle"
    /\ \/ \E j \in 0..MaxLines :
             \E m \in (IF j = 0 THEN 1 ELSE 0)..(MaxLines - j) :
                 \E src \in SourcesOn(AnalyzeStmts, j, m) :
                     Analyze(src, FALSE)
       \/ \E src \in FormFeedSources : Analyze(src, FALSE)
    /\ UNCHANGED otherVars

\* analyze is called on a source that is one string statement
AnalyzeDocstring ==
    /\ pc = "idle"
    /\ \E lit \in DocLits : Analyze(DocSource(lit), FALSE)
    /\ UNCHANGED otherVars

\* analyze is called on a nest source from module level, a caller that
\* holds one level of the recursion limit
AnalyzeNestCall ==
    /\ pc = "idle"
    /\ \E d \in NestDepths : AnalyzeNest(d, 1)

\* _calculate_maintainability_index is called with arguments of its own
MaintainabilityIndexCall ==
    /\ pc = "idle"
    /\ \E v \in MiVolumes, cc \in MiComplexities, loc \in MiLines :
           CallMaintainabilityIndex(v, cc, loc)

Next ==
    \/ AnalyzeCall
    \/ AnalyzeDocstring
    \/ Walk
    \/ Metrics(FALSE)
    \/ MaintainabilityIndexCall
    \/ Return
    \/ AnalyzeNestCall
    \/ NestWalk
    \/ NestStartWalker
    \/ NestCall
    \/ NestReturn
    \/ NestMetrics
    \/ NestDrop

Spec == Init /\ [][Next]_vars

\* the source of process_data (tests/golden_sample.py:27-44): a function
\* whose body is an if over a for over an if with an else, a try over an if
\* with an except, and a last simple statement
ProcessData ==
    Compound("def", FALSE,
        <<Assign,
          Compound("if", FALSE,
              <<Compound("for", FALSE,
                    <<Compound("if", FALSE, <<Assign>>, <<>>)>>, <<>>)>>,
              <<Compound("else", FALSE, <<Assign>>, <<>>)>>),
          Compound("try", FALSE,
              <<Compound("if", FALSE, <<Assign>>, <<>>)>>,
              <<Compound("except", FALSE, <<Assign>>, <<>>)>>),
          Assign>>,
        <<>>)

GoldenSources == {[pre |-> <<>>, stmts |-> <<ProcessData>>]}

\* analyze is called on the golden sample
AnalyzeGolden ==
    /\ pc = "idle"
    /\ \E src \in GoldenSources : Analyze(src, FALSE)
    /\ UNCHANGED otherVars

\* the sources whose first statement is a string literal and a name with
\* a comma between them: """Hi""", x and x, """Hi""", alone, after a
\* comment and before a pass statement
ListSources ==
    {[pre |-> p, stmts |-> <<Simple(k, DocLit)>> \o r] :
        p \in {<<>>, <<"comment">>},
        k \in {"doclist", "listdoc"},
        r \in {<<>>, <<Pass>>}}

\* analyze is called on one of them
AnalyzeExpressionList ==
    /\ pc = "idle"
    /\ \E src \in ListSources : Analyze(src, FALSE)
    /\ UNCHANGED otherVars

\* the calls of analyze on sources that are parsed and walked in one piece
NextParsed ==
    \/ AnalyzeCall
    \/ AnalyzeDocstring
    \/ AnalyzeGolden
    \/ AnalyzeExpressionList
    \/ Walk
    \/ Metrics(FALSE)
    \/ Return

SpecParsed == Init /\ [][NextParsed]_vars

\* calls of analyze one after the other on one CodeParser, the first kept
AnalyzeAgain ==
    /\ \E src \in HistSources : Analyze(src, TRUE)
    /\ UNCHANGED otherVars

NextHist ==
    \/ AnalyzeAgain
    \/ Walk
    \/ Metrics(TRUE)

SpecHist == Init /\ [][NextHist]_vars

(***************************************************************************)
(* scan_directory (scanner.py:51-116): one CodeParser serves a             *)
(* process_file coroutine for every file, and asyncio.gather runs the      *)
(* coroutines on one event loop.  A coroutine runs until it awaits or      *)
(* returns: parser.analyze is an ordinary call, so a coroutine that is     *)
(* inside it keeps the loop until it has the record, and the coroutines    *)
(* change places only at "await generate_description".  The order in which *)
(* the loop starts and resumes them is left open.                          *)
(***************************************************************************)
\* the files of one scan
MaxFiles == 2

\* the contents of the scanned files: a blank file, "x = 1", "if x: pass",
\* a for statement over an if statement, and a module docstring
ScanContents ==
    {[pre |-> <<"spaces">>, stmts |-> <<>>],
     [pre |-> <<>>, stmts |-> <<Assign>>],
     [pre |-> <<>>, stmts |-> <<Compound("if", TRUE, <<Pass>>, <<>>)>>],
     [pre |-> <<"comment">>,
      stmts |-> <<Compound("for", FALSE,
                           <<Compound("if", TRUE, <<Pass>>, <<>>)>>, <<>>)>>],
     DocSource(<<"\"","\"","\"","H","a","n","d","l","e","s"," ","w","i","d","g","e","t","s",".","\"","\"","\"">>)}

\* a file of the directory: read_text returns its content or raises OSError
ScanFiles ==
    {[readable |-> TRUE, content |-> c] : c \in ScanContents}
    \cup {[readable |-> FALSE, content |-> NoSource]}

\* the file lists of at least one and at most n files
FileLists(n) == UNION {[1..k -> ScanFiles] : k \in 1..n}

\* what llm_complete answers, and what generate_description returns when
\* it raises (46-49)
GeneratedDescriptions ==
    {<<"A"," ","s","m","a","l","l"," ","m","o","d","u","l","e",".">>,
     <<"A","n","a","l","y","s","i","s"," ","f","a","i","l","e","d",".">>}

\* "not description or len(description.strip()) < 10" (85)
LacksDescription(description) ==
    description = None \/ Len(Strip(description[1])) < 10

\* the dict process_file returns (91-101)
FileRecord(t, analysis, description) ==
    [file_path |-> t,
     complexity_score |-> analysis.complexity_score,
     node_count |-> analysis.node_count,
     cognitive_complexity |-> analysis.cognitive_complexity,
     halstead_volume |-> analysis.halstead_volume,
     maintainability_index |-> analysis.maintainability_index,
     sqale_debt_hours |-> analysis.sqale_debt_hours,
     lines_of_code |-> analysis.lines_of_code,
     description |-> description]

NoTask == [file |-> [readable |-> FALSE, content |-> NoSource],
           pc |-> "pending", analysis |-> NoResult, returned |-> <<>>]

\* scan_directory creates the coroutines and gathers them (110-111)
ScanDirectory(files) ==
    /\ pc = "idle"
    /\ tasks = <<>>
    /\ tasks' = [t \in 1..Len(files) |-> [NoTask EXCEPT !.file = files[t]]]
    /\ UNCHANGED <<pc, source, tree, cursor, node_count, complexity_score,
                   complexity, operators, operands, result, first, calls,
                   mi_call, frames, frame, running, rows, request, latest>>
    /\ UNCHANGED extVars
    /\ UNCHANGED janitorVars
    /\ UNCHANGED postVars

\* the loop starts a coroutine (79-81): it reads the file and calls
\* parser.analyze, or returns None when the file cannot be read (102-103)
ProcessFile(t) ==
    /\ pc = "idle"
    /\ running = 0
    /\ t \in DOMAIN tasks
    /\ tasks[t].pc = "pending"
    /\ IF tasks[t].file.readable
       THEN /\ Analyze(tasks[t].file.content, FALSE)
            /\ running' = t
            /\ tasks' = [tasks EXCEPT ![t].pc = "analyzing"]
       ELSE /\ tasks' = [tasks EXCEPT ![t].pc = "finished"]
            /\ UNCHANGED <<pc, source, tree, cursor, node_count,
                           complexity_score, complexity, operators, operands,
                           result, first, calls, mi_call, running>>
    /\ UNCHANGED <<frames, frame, rows, request, latest>>
    /\ UNCHANGED extVars
    /\ UNCHANGED janitorVars
    /\ UNCHANGED postVars

\* parser.analyze returned to the coroutine (81-101): it awaits a generated
\* description when the file has content and no docstring of ten
\* characters, and returns its dict otherwise.  The locals of analyze are
\* garbage from here on; the CodeParser stays.
TaskAnalyzed ==
    /\ pc = "done"
    /\ running \in DOMAIN tasks
    /\ LET t == running
           analysis == result
           content == SourceText(tasks[t].file.content)
       IN tasks' =
            IF LacksDescription(analysis.description) /\ Strip(content) # <<>>
            THEN [tasks EXCEPT ![t].pc = "awaiting",
                               ![t].analysis = analysis]
            ELSE [tasks EXCEPT ![t].pc = "finished",
                               ![t].analysis = analysis,
                               ![t].returned =
                                   <<FileRecord(t, analysis,
                                                analysis.description)>>]
    /\ running' = 0
    /\ pc' = "idle"
    /\ UNCHANGED <<source, tree, cursor, node_count, complexity_score,
                   complexity, operators, operands, result, first, calls,
                   mi_call, frames, frame, rows, request, latest>>
    /\ UNCHANGED extVars
    /\ UNCHANGED janitorVars
    /\ UNCHANGED postVars

\* generate_description returned to a coroutine that awaited it (89-101)
TaskResume(t) ==
    /\ pc = "idle"
    /\ running = 0
    /\ t \in DOMAIN tasks
    /\ tasks[t].pc = "awaiting"
    /\ \E description \in GeneratedDescriptions :
           tasks' = [tasks EXCEPT ![t].pc = "finished",
                                  ![t].returned =
                                      <<FileRecord(t, tasks[t].analysis,
                                                   Some(description))>>]
    /\ UNCHANGED <<pc, source, tree, cursor, node_count, complexity_score,
                   complexity, operators, operands, result, first, calls,
                   mi_call, frames, frame, running, rows, request, latest>>
    /\ UNCHANGED extVars
    /\ UNCHANGED janitorVars
    /\ UNCHANGED postVars

\* gather returned every result and scan_directory returns (111-116); its
\* CodeParser goes with it
ScanReturn ==
    /\ tasks # <<>>
    /\ \A t \in DOMAIN tasks : tasks[t].pc = "finished"
    /\ tasks' = <<>>
    /\ pc' = "idle"
    /\ source' = NoSource
    /\ tree' = NoTree
    /\ cursor' = <<>>
    /\ node_count' = 0
    /\ complexity_score' = 0
    /\ complexity' = 0
    /\ operators' = <<>>
    /\ operands' = <<>>
    /\ result' = NoResult
    /\ UNCHANGED <<first, calls, mi_call, frames, frame, running, rows,
                   request, latest>>
    /\ UNCHANGED extVars
    /\ UNCHANGED janitorVars
    /\ UNCHANGED postVars

NextScan ==
    \/ \E files \in FileLists(MaxFiles) : ScanDirectory(files)
    \/ \E t \in 1..MaxFiles : ProcessFile(t)
    \/ Walk
    \/ Metrics(FALSE)
    \/ TaskAnalyzed
    \/ \E t \in 1..MaxFiles : TaskResume(t)
    \/ ScanReturn

SpecScan == Init /\ [][NextScan]_vars

(***************************************************************************)
(* POST /analyze (main.py:336-393).  analyze_code is a coroutine that      *)
(* awaits nothing: the event loop runs a request from its first line to    *)
(* its response before it starts the next.  The handler calls analyze on   *)
(* the CodeParser of the module (69, 356), selects the FileAnalysis row of *)
(* the filename, overwrites it or adds a new one, and commits.  When       *)
(* analyze raises, the handler is left at 356: nothing is written and the  *)
(* client gets a 500.  last_analyzed is a clock reading and is left out.   *)
(***************************************************************************)
\* the filenames of the requests are 1..MaxNames
MaxNames == 2

\* the pairs of parentheses of the nest contents of the requests: 992, the
\* most the walkers get through below the least that the handler holds and
\* too many below more, and 1000, too many below any
ApiNestDepths == {992, 1000}

\* the levels of the recursion limit in use when analyze_code calls analyze
\* (356), the level of analyze_code included.  The handler is a coroutine:
\* whatever drives it holds levels of its own.  3 is the least (the
\* coroutine resumed by send from module level: the module, the resume and
\* analyze_code), 11 is what a run under asyncio.run holds
HandlerFrames == {3, 11}

\* the contents of the requests: "if x: pass", a for statement over an if
\* statement, and the nest sources
ApiContents ==
    {[pre |-> <<>>, stmts |-> <<Compound("if", TRUE, <<Pass>>, <<>>)>>],
     [pre |-> <<>>,
      stmts |-> <<Compound("for", FALSE,
                           <<Compound("if", TRUE, <<Pass>>, <<>>)>>, <<>>)>>]}
    \cup {NestSource(d) : d \in ApiNestDepths}

IsNest(src) == src.stmts # <<>> /\ src.stmts[1].kind = "nest"

\* FileAnalysis(file_path=..., ...) with the id the table gives it
\* (main.py:363-386, models.py:29-41)
Row(id, filename, res) ==
    [id |-> id,
     file_path |-> filename,
     complexity_score |-> res.complexity_score,
     node_count |-> res.node_count,
     cognitive_complexity |-> res.cognitive_complexity,
     halstead_volume |-> res.halstead_volume,
     maintainability_index |-> res.maintainability_index,
     sqale_debt_hours |-> res.sqale_debt_hours,
     lines_of_code |-> res.lines_of_code,
     description |-> res.description]

\* the id of a new row: one more than the largest in the table
NextId(table) ==
    IF table = {} THEN 1
    ELSE (CHOOSE i \in {r.id : r \in table} :
              \A r \in table : r.id <= i) + 1

\* select(FileAnalysis).where(file_path == filename).first() (359-361):
\* the matching row of the least id, in a sequence that is empty for None
SelectFirst(table, filename) ==
    LET found == {r \in table : r.file_path = filename}
    IN IF found = {} THEN <<>>
       ELSE <<CHOOSE r \in found : \A q \in found : r.id <= q.id>>

\* the table after the handler's update or insert and its commit (363-388)
Upsert(table, filename, res) ==
    LET existing == SelectFirst(table, filename)
    IN IF existing # <<>>
       THEN (table \ {existing[1]}) \cup {Row(existing[1].id, filename, res)}
       ELSE table \cup {Row(NextId(table), filename, res)}

\* a request arrives
PostAnalyze(filename, content) ==
    /\ pc = "idle"
    /\ request = <<>>
    /\ tasks = <<>>
    /\ request' = <<[filename |-> filename, content |-> content]>>
    /\ UNCHANGED <<pc, source, tree, cursor, node_count, complexity_score,
                   complexity, operators, operands, result, first, calls,
                   mi_call, frames, frame, tasks, running, rows, latest>>
    /\ UNCHANGED extVars
    /\ UNCHANGED janitorVars
    /\ UNCHANGED postVars

\* code_parser.analyze(request.content) is called (356), below the levels
\* of the recursion limit that the handler and what drives it hold
HandlerAnalyze ==
    /\ pc = "idle"
    /\ request # <<>>
    /\ IF IsNest(request[1].content)
       THEN \E held \in HandlerFrames :
                AnalyzeNest(NestOf(request[1].content), held)
       ELSE Analyze(request[1].content, FALSE) /\ UNCHANGED otherVars

\* the engine's state once the handler is left
HandlerLeft ==
    /\ pc' = "idle"
    /\ source' = NoSource
    /\ tree' = NoTree
    /\ cursor' = <<>>
    /\ node_count' = 0
    /\ complexity_score' = 0
    /\ complexity' = 0
    /\ operators' = <<>>
    /\ operands' = <<>>
    /\ result' = NoResult
    /\ frames' = 0
    /\ frame' = <<>>
    /\ request' = <<>>
    /\ UNCHANGED <<first, calls, mi_call, tasks, running>>
    /\ UNCHANGED extVars
    /\ UNCHANGED janitorVars
    /\ UNCHANGED postVars

\* analyze returned: the row is written and the response sent (359-393)
HandlerCommit ==
    /\ pc \in {"done", "nest_done"}
    /\ request # <<>>
    /\ rows' = Upsert(rows, request[1].filename, result)
    /\ latest' = [f \in DOMAIN latest \cup {request[1].filename} |->
                     IF f = request[1].filename THEN result ELSE latest[f]]
    /\ HandlerLeft

\* analyze raised: the request ends without a write
HandlerRaised ==
    /\ pc = "raised"
    /\ request # <<>>
    /\ latest' = [f \in DOMAIN latest \cup {request[1].filename} |->
                     IF f = request[1].filename THEN NoResult ELSE latest[f]]
    /\ HandlerLeft
    /\ UNCHANGED rows

NextApi ==
    \/ \E filename \in 1..MaxNames, content \in ApiContents :
           PostAnalyze(filename, content)
    \/ HandlerAnalyze
    \/ Walk
    \/ Metrics(FALSE)
    \/ NestWalk
    \/ NestStartWalker
    \/ NestCall
    \/ NestReturn
    \/ NestMetrics
    \/ HandlerCommit
    \/ HandlerRaised

SpecApi == Init /\ [][NextApi]_vars

(***************************************************************************)
(* The directory walk of scan_directory (scanner.py:62-116).  A path is    *)
(* the sequence of its parts and a part is a text.  The root is resolved   *)
(* to an absolute path (62), so the paths rglob yields hold the parts of   *)
(* the root before the parts below it.  rglob gives the entries in the     *)
(* order of the file system, which is left open.                           *)
(***************************************************************************)
\* the entries of a scanned directory
MaxEntries == 2

IGNORE_DIRS ==
    {<<"v","e","n","v">>,
     <<".","v","e","n","v">>,
     <<"e","n","v">>,
     <<".","e","n","v">>,
     <<"_","_","p","y","c","a","c","h","e","_","_">>,
     <<".","g","i","t">>,
     <<".","h","g">>,
     <<".","s","v","n">>,
     <<"n","o","d","e","_","m","o","d","u","l","e","s">>,
     <<".","t","o","x">>,
     <<".","p","y","t","e","s","t","_","c","a","c","h","e">>,
     <<".","m","y","p","y","_","c","a","c","h","e">>,
     <<"d","i","s","t">>,
     <<"b","u","i","l","d">>,
     <<"e","g","g","-","i","n","f","o">>}

\* the roots of the scans: /home/proj and /home/build/proj
ScanRoots ==
    {<<<<"h","o","m","e">>, <<"p","r","o","j">>>>,
     <<<<"h","o","m","e">>, <<"b","u","i","l","d">>, <<"p","r","o","j">>>>}

\* the directories below the root that hold the entries: the root itself,
\* pkg, venv and pkg/__pycache__
EntryDirs ==
    {<<>>, <<<<"p","k","g">>>>, <<<<"v","e","n","v">>>>, <<<<"p","k","g">>, <<"_","_","p","y","c","a","c","h","e","_","_">>>>}

\* the names of the entries: a.py and notes.txt
EntryNames == {<<"a",".","p","y">>, <<"n","o","t","e","s",".","t","x","t">>}

\* the entries a directory may hold: "x = 1" or "if x: pass" in a file
\* that can be read, or a file that cannot
Entries ==
    {[dirs |-> d, name |-> n, readable |-> TRUE, content |-> c] :
        d \in EntryDirs, n \in EntryNames,
        c \in {[pre |-> <<>>, stmts |-> <<Assign>>],
               [pre |-> <<>>,
                stmts |-> <<Compound("if", TRUE, <<Pass>>, <<>>)>>]}}
    \cup {[dirs |-> d, name |-> n, readable |-> FALSE, content |-> NoSource] :
             d \in EntryDirs, n \in EntryNames}

\* the sets of at most n entries, no two at one path
EntrySets(n) ==
    {es \in SUBSET Entries :
        /\ Cardinality(es) <= n
        /\ \A e1, e2 \in es :
               (e1.dirs = e2.dirs /\ e1.name = e2.name) => e1 = e2}

\* the directories of the scans: a root that exists with its entries, or a
\* root that does not exist
Directories(n) ==
    {[root |-> r, exists |-> TRUE, entries |-> es] :
        r \in ScanRoots, es \in EntrySets(n)}
    \cup {[root |-> r, exists |-> FALSE, entries |-> {}] : r \in ScanRoots}

\* the pattern "*.py" of rglob (73)
MatchesPy(name) ==
    /\ Len(name) >= 3
    /\ SubSeq(name, Len(name) - 2, Len(name)) = <<".","p","y">>

\* py_file.parts: the parts of the resolved root, then those below it
PartsBelowRoot(entry) == entry.dirs \o <<entry.name>>
PartsOf(root, entry) == root \o PartsBelowRoot(entry)

\* "any(ignored in py_file.parts for ignored in IGNORE_DIRS)" (74)
Ignored(root, entry) ==
    \E ignored \in IGNORE_DIRS :
        \E i \in DOMAIN PartsOf(root, entry) : PartsOf(root, entry)[i] = ignored

\* the sequences that list every element of a set once
Orderings(S) ==
    {f \in [1..Cardinality(S) -> S] : \A e \in S : \E i \in DOMAIN f : f[i] = e}

\* scan_directory runs up to asyncio.gather (62-111): it returns at once
\* when the root does not exist, and otherwise lists the files and creates
\* a coroutine for each
ScanTree(dir) ==
    /\ pc = "idle"
    /\ directory = <<>>
    /\ tasks = <<>>
    /\ directory' = <<dir>>
    /\ IF ~dir.exists
       THEN /\ files_to_process' = <<>>
            /\ results' = <<<<>>>>
       ELSE /\ files_to_process' \in
                   Orderings({e \in dir.entries :
                                 MatchesPy(e.name) /\ ~Ignored(dir.root, e)})
            /\ results' = <<>>
    /\ tasks' = [t \in DOMAIN files_to_process' |->
                    [NoTask EXCEPT !.file = files_to_process'[t]]]
    /\ UNCHANGED <<pc, source, tree, cursor, node_count, complexity_score,
                   complexity, operators, operands, result, first, calls,
                   mi_call, frames, frame, running, rows, request, latest>>
    /\ UNCHANGED janitorVars
    /\ UNCHANGED postVars

RECURSIVE NotNone(_)
\* "[r for r in results_raw if r is not None]" (114)
NotNone(ts) ==
    IF ts = <<>> THEN <<>>
    ELSE (IF Head(ts).returned = <<>> THEN <<>> ELSE Head(ts).returned)
         \o NotNone(Tail(ts))

\* gather has every result and scan_directory returns the list (111-116)
ScanResults ==
    /\ directory # <<>>
    /\ results = <<>>
    /\ pc = "idle"
    /\ \A t \in DOMAIN tasks : tasks[t].pc = "finished"
    /\ results' = <<NotNone(tasks)>>
    /\ UNCHANGED <<pc, source, tree, cursor, node_count, complexity_score,
                   complexity, operators, operands, result, first, calls,
                   mi_call, frames, frame, tasks, running, rows, request,
                   latest, directory, files_to_process>>
    /\ UNCHANGED janitorVars
    /\ UNCHANGED postVars

\* the caller has the list; scan_directory's frame and CodeParser are gone
ScanForget ==
    /\ results # <<>>
    /\ directory' = <<>>
    /\ files_to_process' = <<>>
    /\ results' = <<>>
    /\ tasks' = <<>>
    /\ pc' = "idle"
    /\ source' = NoSource
    /\ tree' = NoTree
    /\ cursor' = <<>>
    /\ node_count' = 0
    /\ complexity_score' = 0
    /\ complexity' = 0
    /\ operators' = <<>>
    /\ operands' = <<>>
    /\ result' = NoResult
    /\ UNCHANGED <<first, calls, mi_call, frames, frame, running, rows,
                   request, latest>>
    /\ UNCHANGED janitorVars
    /\ UNCHANGED postVars

\* a scan is started on a directory of at most MaxEntries entries
ScanTreeCall ==
    /\ pc = "idle"
    /\ directory = <<>>
    /\ \E dir \in Directories(MaxEntries) : ScanTree(dir)

NextTree ==
    \/ ScanTreeCall
    \/ \E t \in 1..MaxEntries : ProcessFile(t)
    \/ Walk
    \/ Metrics(FALSE)
    \/ TaskAnalyzed
    \/ \E t \in 1..MaxEntries : TaskResume(t)
    \/ ScanResults
    \/ ScanForget

SpecTree == Init /\ [][NextTree]_vars

(***************************************************************************)
(* JanitorAgent.solve (janitor.py:191-348).  The coroutine awaits the LLM  *)
(* in _ask_llm (121-131) and nowhere else.  A request to the LLM is        *)
(* answered with a text or raises (the client raises when the API cannot   *)
(* be reached or refuses), and nothing in janitor.py catches what it       *)
(* raises.  A sandbox run is a blocking call of run_code (sandbox.py:40-   *)
(* 81) that waits for the container: it returns a text, it raises (the     *)
(* handler of ContainerError decodes the stderr of the container at 75,    *)
(* and bytes that are not UTF-8 raise a UnicodeDecodeError that no handler *)
(* catches, in sandbox.py, in janitor.py or in fix_bug), or it does not    *)
(* come back (containers.run at 56 has no timeout, so a script that does   *)
(* not stop keeps the call in the run).                                    *)
(* Texts are sequences of characters.                                      *)
(***************************************************************************)
MAX_RETRIES == 3

SIMPLE_ISSUE_TYPES == {<<"t","y","p","o">>, <<"d","o","c","s">>, <<"s","t","y","l","e">>}

\* valid_types of _classify_issue
ValidTypes == {<<"b","e","h","a","v","i","o","r","a","l","_","b","u","g">>, <<"t","y","p","o">>, <<"d","o","c","s">>, <<"s","t","y","l","e">>}

\* str.lower on the letters of the answers
LowerChar(c) ==
    CASE c = "A" -> "a"
      [] c = "B" -> "b"
      [] c = "C" -> "c"
      [] c = "D" -> "d"
      [] c = "E" -> "e"
      [] c = "F" -> "f"
      [] c = "G" -> "g"
      [] c = "H" -> "h"
      [] c = "I" -> "i"
      [] c = "J" -> "j"
      [] c = "K" -> "k"
      [] c = "L" -> "l"
      [] c = "M" -> "m"
      [] c = "N" -> "n"
      [] c = "O" -> "o"
      [] c = "P" -> "p"
      [] c = "Q" -> "q"
      [] c = "R" -> "r"
      [] c = "S" -> "s"
      [] c = "T" -> "t"
      [] c = "U" -> "u"
      [] c = "V" -> "v"
      [] c = "W" -> "w"
      [] c = "X" -> "x"
      [] c = "Y" -> "y"
      [] c = "Z" -> "z"
      [] OTHER -> c

Lower(t) == [i \in 1..Len(t) |-> LowerChar(t[i])]

\* str.replace(" ", "_")
SpacesToUnderscores(t) == [i \in 1..Len(t) |-> IF t[i] = " " THEN "_" ELSE t[i]]

\* the issue type _classify_issue makes of the LLM's answer
ClassifyIssue(response) ==
    LET issue_type == SpacesToUnderscores(Lower(Strip(response)))
    IN IF issue_type \notin ValidTypes THEN <<"b","e","h","a","v","i","o","r","a","l","_","b","u","g">> ELSE issue_type

\* the issue goes the way of the behavioural bugs whatever its type
IsSimpleIssueNever(issue_type) == FALSE

\* "issue_type in self.SIMPLE_ISSUE_TYPES"
IsSimpleIssue(issue_type) == issue_type \in SIMPLE_ISSUE_TYPES

\* the backquote of the markdown fences, which a string of TLA+ cannot hold
Tick == "~"

\* _clean_code_response
CleanCodeResponse(response) ==
    LET code == Strip(response)
        opened == IF StartsWith(code, <<Tick,Tick,Tick,"p","y","t","h","o","n">>) THEN Slice(code, 9, 0)
                  ELSE IF StartsWith(code, <<Tick,Tick,Tick>>) THEN Slice(code, 3, 0)
                  ELSE code
        closed == IF EndsWith(opened, <<Tick,Tick,Tick>>) THEN Slice(opened, 0, 3)
                  ELSE opened
    IN Strip(closed)

\* "sub in text"
Contains(text, sub) ==
    \E i \in 1..(Len(text) - Len(sub) + 1) :
        SubSeq(text, i, i + Len(sub) - 1) = sub

\* the verdict of _run_in_sandbox on the output of a run
Passed(output) ==
    /\ ~StartsWith(output, <<"E","r","r","o","r",":">>)
    /\ ~Contains(output, <<"T","r","a","c","e","b","a","c","k">>)
    /\ ~Contains(output, <<"A","s","s","e","r","t","i","o","n","E","r","r","o","r">>)

\* the answers of the LLM to the classifying request
ClassifyAnswers ==
    {<<"t","y","p","o">>, <<"d","o","c","s">>, <<"s","t","y","l","e">>, <<"b","e","h","a","v","i","o","r","a","l","_","b","u","g">>,
     <<"B","e","h","a","v","i","o","r","a","l"," ","B","u","g">>,
     <<" ","T","y","p","o","\n">>,
     <<"\f","t","y","p","o">>,
     <<"s","e","c","u","r","i","t","y">>}

\* its answers to the requests for code: a, a inside a python fence, b
\* inside a plain fence, and a inside a python fence after a form feed
CodeAnswers ==
    {<<"a">>,
     <<Tick,Tick,Tick,"p","y","t","h","o","n","\n","a","\n",Tick,Tick,Tick>>,
     <<Tick,Tick,Tick,"\n","b","\n",Tick,Tick,Tick>>,
     <<"\f",Tick,Tick,Tick,"p","y","t","h","o","n","\n","a","\n",Tick,Tick,Tick>>}

\* what the sandbox may print: ok, an error, a traceback that the script
\* printed itself, and a failed assertion
SandboxOutputs ==
    {<<"o","k">>,
     <<"E","r","r","o","r",":"," ","1">>,
     <<"x"," ","T","r","a","c","e","b","a","c","k">>,
     <<"A","s","s","e","r","t","i","o","n","E","r","r","o","r">>}

\* the file at file_path: it is read, it does not exist, or reading raises
FileStates == {"readable", "missing", "unreadable"}

\* the text of the file
OriginalCode == <<"o">>

NoCall == [pc |-> "idle"]

\* solve returns a dict
Returned(call, dict) == [call EXCEPT !.pc = "returned", !.result = dict]

\* the repro script counts as reproducing the bug whatever the run said
ReproducedAlways(passed) == TRUE

\* "if passed: return failed": the bug is reproduced when the script does
\* not pass on the original code
Reproduced(passed) == ~passed

\* the loop takes one more turn than MAX_RETRIES
FixLoopGoesOnOnceMore(attempt) == attempt <= MAX_RETRIES

\* "for attempt in range(1, self.MAX_RETRIES + 1)": there is a next turn
\* after the turn of this attempt
FixLoopGoesOn(attempt) == attempt < MAX_RETRIES

\* _run_in_sandbox(main_code, test_code) is in run_code (180): the run has
\* no output and no verdict yet
Started(main_code, test_code) ==
    [main_code |-> main_code, test_code |-> test_code, outcome |-> "running",
     output |-> <<>>, passed |-> FALSE]

\* _run_in_sandbox(main_code, test_code) with the output the sandbox gave
Run(main_code, test_code, output) ==
    [main_code |-> main_code, test_code |-> test_code, outcome |-> "returned",
     output |-> output, passed |-> Passed(output)]

\* solve is called and sends the classifying request
Solve(file, available) ==
    /\ solve = NoCall
    /\ solve' = [pc |-> "classify", file |-> file, available |-> available,
                 issue_type |-> <<>>, repro_script |-> <<>>,
                 current_code |-> <<>>, fixed_code |-> <<>>,
                 last_error |-> <<>>, attempt |-> 0, error |-> "",
                 result |-> <<>>]
    /\ llm_requests' = <<"classify">>
    /\ sandbox_runs' = <<>>

\* the classifying request is answered: the file is read, and the call
\* returns or sends its next request
ClassifyAnswered(response) ==
    /\ solve.pc = "classify"
    /\ LET issue_type == ClassifyIssue(response)
           call == [solve EXCEPT !.issue_type = issue_type]
       IN IF solve.file = "missing"
          THEN /\ solve' = Returned(call,
                     [status |-> "failed", reason |-> "File not found",
                      issue_type |-> issue_type])
               /\ UNCHANGED llm_requests
          ELSE IF solve.file = "unreadable"
          THEN /\ solve' = Returned(call,
                     [status |-> "failed", reason |-> "Could not read file",
                      issue_type |-> issue_type])
               /\ UNCHANGED llm_requests
          ELSE IF IsSimpleIssue(issue_type)
          THEN /\ solve' = [call EXCEPT !.pc = "simple_fix"]
               /\ llm_requests' = Append(llm_requests, "fix")
          ELSE IF ~solve.available
          THEN /\ solve' = Returned(call,
                     [status |-> "failed",
                      reason |-> "Docker sandbox is not available",
                      issue_type |-> issue_type])
               /\ UNCHANGED llm_requests
          ELSE /\ solve' = [call EXCEPT !.pc = "repro"]
               /\ llm_requests' = Append(llm_requests, "repro")
    /\ UNCHANGED sandbox_runs

\* the fix of a simple issue is answered
SimpleFixAnswered(response) ==
    /\ solve.pc = "simple_fix"
    /\ solve' = Returned(solve,
           [status |-> "success", fixed_code |-> CleanCodeResponse(response),
            issue_type |-> solve.issue_type, attempts |-> 1,
            verification |-> "skipped (simple issue)"])
    /\ UNCHANGED <<llm_requests, sandbox_runs>>

\* the request for the fix of this attempt
RequestFix(call, attempt) ==
    /\ solve' = [call EXCEPT !.pc = "fix", !.attempt = attempt]
    /\ llm_requests' = Append(llm_requests, "fix")

\* the reproduction script is answered (283-284) and its run on the
\* original code starts (287, 180): the call is in run_code
ReproAnswered(response) ==
    /\ solve.pc = "repro"
    /\ LET repro_script == CleanCodeResponse(response)
       IN /\ solve' = [solve EXCEPT !.pc = "repro_run",
                                    !.repro_script = repro_script]
          /\ sandbox_runs' = Append(sandbox_runs,
                                    Started(OriginalCode, repro_script))
    /\ UNCHANGED llm_requests

\* run_code returned the output of the reproduction script (287-300)
ReproRan(output) ==
    /\ solve.pc = "repro_run"
    /\ LET run == Run(OriginalCode, solve.repro_script, output)
           call == [solve EXCEPT !.current_code = OriginalCode,
                                  !.last_error = output]
       IN /\ sandbox_runs' = [sandbox_runs EXCEPT ![Len(sandbox_runs)] = run]
          /\ IF ~Reproduced(run.passed)
             THEN /\ solve' = Returned(call,
                        [status |-> "failed",
                         reason |-> "Could not reproduce bug",
                         repro_script |-> solve.repro_script,
                         test_output |-> output,
                         issue_type |-> solve.issue_type])
                  /\ UNCHANGED llm_requests
             ELSE RequestFix(call, 1)

\* a fix is answered (320-321) and its run starts (324, 180)
FixAnswered(response) ==
    /\ solve.pc = "fix"
    /\ LET fixed_code == CleanCodeResponse(response)
       IN /\ solve' = [solve EXCEPT !.pc = "fix_run",
                                    !.fixed_code = fixed_code]
          /\ sandbox_runs' = Append(sandbox_runs,
                                    Started(fixed_code, solve.repro_script))
    /\ UNCHANGED llm_requests

\* run_code returned the output of the script on the fix (324-348)
FixRan(output) ==
    /\ solve.pc = "fix_run"
    /\ LET fixed_code == solve.fixed_code
           run == Run(fixed_code, solve.repro_script, output)
           call == [solve EXCEPT !.last_error = output,
                                  !.current_code = fixed_code]
       IN /\ sandbox_runs' = [sandbox_runs EXCEPT ![Len(sandbox_runs)] = run]
          /\ IF run.passed
             THEN /\ solve' = Returned(solve,
                        [status |-> "success", fixed_code |-> fixed_code,
                         repro_script |-> solve.repro_script,
                         attempts |-> solve.attempt,
                         issue_type |-> solve.issue_type])
                  /\ UNCHANGED llm_requests
             ELSE IF FixLoopGoesOn(solve.attempt)
             THEN RequestFix(call, solve.attempt + 1)
             ELSE /\ solve' = Returned(call,
                        [status |-> "failed",
                         reason |-> "Could not fix after MAX_RETRIES attempts",
                         last_error |-> output,
                         repro_script |-> solve.repro_script,
                         last_attempt |-> fixed_code,
                         issue_type |-> solve.issue_type])
                  /\ UNCHANGED llm_requests

\* the container ended with an error and a stderr that is not UTF-8: the
\* decode in the handler of ContainerError raises (sandbox.py:75), and
\* the UnicodeDecodeError leaves run_code, _run_in_sandbox (180) and solve
\* (287, 324)
SandboxRaises ==
    /\ solve.pc \in {"repro_run", "fix_run"}
    /\ solve' = [solve EXCEPT !.pc = "raised",
                              !.error = "UnicodeDecodeError"]
    /\ sandbox_runs' = [sandbox_runs EXCEPT
                           ![Len(sandbox_runs)].outcome = "raised"]
    /\ UNCHANGED llm_requests

\* the request the call awaits raises, and so does solve
LlmRaises ==
    /\ solve.pc \in {"classify", "simple_fix", "repro", "fix"}
    /\ solve' = [solve EXCEPT !.pc = "raised", !.error = "llm_error"]
    /\ UNCHANGED <<llm_requests, sandbox_runs>>

\* the caller has the dict or the exception
SolveForget ==
    /\ solve.pc \in {"returned", "raised"}
    /\ solve' = NoCall
    /\ llm_requests' = <<>>
    /\ sandbox_runs' = <<>>

\* the engine, the scanner and the endpoints take no part
JanitorOnly ==
    UNCHANGED <<pc, source, tree, cursor, node_count, complexity_score,
                complexity, operators, operands, result, first, calls,
                mi_call, frames, frame, tasks, running, rows, request, latest,
                extVars, postVars>>

SolveCall ==
    /\ \E file \in FileStates, available \in BOOLEAN : Solve(file, available)
    /\ JanitorOnly

ClassifyAnswer ==
    /\ \E response \in ClassifyAnswers : ClassifyAnswered(response)
    /\ JanitorOnly

SimpleFixAnswer ==
    /\ \E response \in CodeAnswers : SimpleFixAnswered(response)
    /\ JanitorOnly

ReproAnswer ==
    /\ \E response \in CodeAnswers : ReproAnswered(response)
    /\ JanitorOnly

ReproRun ==
    /\ \E output \in SandboxOutputs : ReproRan(output)
    /\ JanitorOnly

FixAnswer ==
    /\ \E response \in CodeAnswers : FixAnswered(response)
    /\ JanitorOnly

FixRun ==
    /\ \E output \in SandboxOutputs : FixRan(output)
    /\ JanitorOnly

SandboxRaise == SandboxRaises /\ JanitorOnly

LlmRaise == LlmRaises /\ JanitorOnly

SolveDrop == SolveForget /\ JanitorOnly

NextJanitor ==
    \/ SolveCall
    \/ ClassifyAnswer
    \/ SimpleFixAnswer
    \/ ReproAnswer
    \/ ReproRun
    \/ FixAnswer
    \/ FixRun
    \/ SandboxRaise
    \/ LlmRaise
    \/ SolveDrop

SpecJanitor == Init /\ [][NextJanitor]_vars

\* every request to the LLM comes to an end: it is answered or it raises
LlmEnds == ClassifyAnswer \/ SimpleFixAnswer \/ ReproAnswer \/ FixAnswer \/ LlmRaise

\* a run of the sandbox comes to an end: run_code returns or raises.  The
\* code does not see to it (no timeout at sandbox.py:56), so this is no
\* fairness condition of the specification.
SandboxEnds == ReproRun \/ FixRun \/ SandboxRaise

SpecJanitorFair == SpecJanitor /\ WF_vars(LlmEnds)

(***************************************************************************)
(* POST /scan (main.py:428-567).  scan_project answers 404 for a path that *)
(* does not exist; otherwise it caches the descriptions of the rows of the *)
(* table, deletes every row, awaits scan_directory, gives every result     *)
(* without a docstring its cached description, asks the LLM for the        *)
(* descriptions still missing (generate_for_file) and stores the records   *)
(* in the table.  A file path is the place of the file in the list of the  *)
(* scan.                                                                   *)
(***************************************************************************)
Unavailable == <<"D","e","s","c","r","i","p","t","i","o","n"," ","u","n","a","v","a","i","l","a","b","l","e">>

AiSkipped == Unavailable \o <<" ","(","A","I"," ","s","k","i","p","p","e","d",")">>

\* description_cache (465-470), built from the rows of the table
DescriptionCache(table) ==
    LET cached == {r \in table :
                      /\ r.description # None
                      /\ r.description[1] # <<>>
                      /\ ~StartsWith(r.description[1], Unavailable)}
    IN [p \in {r.file_path : r \in cached} |->
           (CHOOSE r \in cached : r.file_path = p).description[1]]

\* the contents of the files of POST /scan: a blank file, "x = 1", a
\* docstring of ten characters and a docstring of eighteen
PostContents ==
    {[pre |-> <<"spaces">>, stmts |-> <<>>],
     [pre |-> <<>>, stmts |-> <<Assign>>],
     DocSource(<<"\"","\"","\"","H","a","n","d","l","e","s"," ","x",".","\"","\"","\"">>),
     DocSource(<<"\"","\"","\"","H","a","n","d","l","e","s"," ","w","i","d","g","e","t","s",".","\"","\"","\"">>)}

PostFiles ==
    {[readable |-> TRUE, content |-> c] : c \in PostContents}
    \cup {[readable |-> FALSE, content |-> NoSource]}

PostFileLists(n) == UNION {[1..k -> PostFiles] : k \in 1..n}

\* what complete_text answers in generate_for_file, and what the handler of
\* its exceptions stores (529-533)
BatchDescriptions ==
    {<<"D","e","f","i","n","e","s"," ","x",".">>,
     AiSkipped}

NoProject == [pc |-> "idle"]

\* "result[description] and len(result[description].strip()) > 10" (492)
HasDocstring(description) ==
    description # None /\ description[1] # <<>> /\ Len(Strip(description[1])) > 10

RECURSIVE AddAll(_, _, _)
\* session.add for every result, in the order of the list, and the commit
\* (546-562): the table with a new row for each
AddAll(table, found, records) ==
    IF found = {} THEN table
    ELSE LET t == CHOOSE u \in found : \A w \in found : u <= w
         IN AddAll(table \cup {Row(NextId(table), t, records[t])},
                   found \ {t}, records)

\* the path does not exist (455-459): the raise statement evaluates the
\* name HTTPException, which main.py never imports (17-26), so the handler
\* leaves with a NameError and not with the 404 it set out to answer; the
\* table is not touched
ScanProjectNotFound ==
    /\ pc = "idle"
    /\ project = NoProject
    /\ tasks = <<>>
    /\ project' = [pc |-> "raised", error |-> "NameError"]
    /\ UNCHANGED <<pc, source, tree, cursor, node_count, complexity_score,
                   complexity, operators, operands, result, first, calls,
                   mi_call, frames, frame, tasks, running, rows, request,
                   latest>>
    /\ UNCHANGED extVars
    /\ UNCHANGED janitorVars

\* scan_project up to its await of scan_directory, and scan_directory up to
\* its gather (428-481, scanner.py:62-111): the cache is taken, the rows
\* are deleted and the delete is committed
ScanProject(files) ==
    /\ project = NoProject
    /\ tasks = <<>>
    /\ project' = [pc |-> "scanning",
                   files |-> files,
                   description_cache |-> DescriptionCache(rows),
                   results |-> <<>>,
                   files_needing_ai |-> {},
                   pending |-> {},
                   awaiting |-> {},
                   requested |-> {}]
    /\ rows' = {}
    /\ tasks' = [t \in 1..Len(files) |-> [NoTask EXCEPT !.file = files[t]]]
    /\ UNCHANGED <<pc, source, tree, cursor, node_count, complexity_score,
                   complexity, operators, operands, result, first, calls,
                   mi_call, frames, frame, running, request, latest>>
    /\ UNCHANGED extVars
    /\ UNCHANGED janitorVars

\* step 3 of scan_project on the list scan_directory returned (483-500):
\* the results that keep their description and those that take the cached
\* one.  With files that need a description the handler creates their
\* generate_for_file coroutines and suspends in the gather (505-539);
\* without any it stores the records and returns (541-567).
ScanProjectBatch ==
    /\ project.pc = "scanning"
    /\ pc = "idle"
    /\ running = 0
    /\ tasks # <<>>
    /\ \A t \in DOMAIN tasks : tasks[t].pc = "finished"
    /\ LET found == {t \in DOMAIN tasks : tasks[t].returned # <<>>}
           scanned == [t \in found |-> tasks[t].returned[1]]
           cache == project.description_cache
           files_needing_ai ==
               {t \in found : /\ ~HasDocstring(scanned[t].description)
                              /\ t \notin DOMAIN cache}
           described ==
               [t \in found |->
                   IF HasDocstring(scanned[t].description) THEN scanned[t]
                   ELSE IF t \in DOMAIN cache
                   THEN [scanned[t] EXCEPT !.description = Some(cache[t])]
                   ELSE scanned[t]]
       IN IF files_needing_ai = {}
          THEN /\ project' = [project EXCEPT !.pc = "returned",
                                             !.results = described]
               /\ rows' = AddAll(rows, found, described)
          ELSE /\ project' = [project EXCEPT
                                !.pc = "batch",
                                !.results = described,
                                !.files_needing_ai = files_needing_ai,
                                !.pending = files_needing_ai]
               /\ UNCHANGED rows
    /\ tasks' = <<>>
    /\ source' = NoSource
    /\ tree' = NoTree
    /\ cursor' = <<>>
    /\ node_count' = 0
    /\ complexity_score' = 0
    /\ complexity' = 0
    /\ operators' = <<>>
    /\ operands' = <<>>
    /\ result' = NoResult
    /\ UNCHANGED <<pc, first, calls, mi_call, frames, frame, running,
                   request, latest>>
    /\ UNCHANGED extVars
    /\ UNCHANGED janitorVars

\* what generate_for_file finds at the path when it reads the file again
\* (512-518), after the awaits of the scan: the path is gone, the read
\* raises, or the read gives a text, the one of the scan or another
RereadFiles ==
    {[state |-> "read", content |-> c] : c \in PostContents}
    \cup {[state |-> "missing", content |-> NoSource],
          [state |-> "unreadable", content |-> NoSource]}

\* the event loop starts a generate_for_file (509-533): it reads the file
\* again.  A path that is gone and a blank text make it return with the
\* result as it is (514-519), a read that raises stores "Description
\* unavailable (AI skipped)" (531-533), and with any other text it awaits
\* complete_text (529).  At most four files are in the section of the
\* semaphore (507, 510), which a scan of MaxFiles files never fills.
GenerateForFile(t, file) ==
    /\ project.pc = "batch"
    /\ t \in project.pending
    /\ IF file.state = "missing"
       THEN project' = [project EXCEPT !.pending = @ \ {t}]
       ELSE IF file.state = "unreadable"
       THEN project' = [project EXCEPT
                          !.pending = @ \ {t},
                          !.results[t].description = Some(AiSkipped)]
       ELSE IF Strip(SourceText(file.content)) = <<>>
       THEN project' = [project EXCEPT !.pending = @ \ {t}]
       ELSE project' = [project EXCEPT !.pending = @ \ {t},
                                       !.awaiting = @ \cup {t},
                                       !.requested = @ \cup {t}]
    /\ UNCHANGED <<pc, source, tree, cursor, node_count, complexity_score,
                   complexity, operators, operands, result, first, calls,
                   mi_call, frames, frame, tasks, running, rows, request,
                   latest>>
    /\ UNCHANGED extVars
    /\ UNCHANGED janitorVars

\* complete_text answered a generate_for_file, or raised (529-533)
BatchAnswered(t, desc) ==
    /\ project.pc = "batch"
    /\ t \in project.awaiting
    /\ project' = [project EXCEPT
                     !.awaiting = @ \ {t},
                     !.results[t].description = Some(desc)]
    /\ UNCHANGED <<pc, source, tree, cursor, node_count, complexity_score,
                   complexity, operators, operands, result, first, calls,
                   mi_call, frames, frame, tasks, running, rows, request,
                   latest>>
    /\ UNCHANGED extVars
    /\ UNCHANGED janitorVars

\* the gather of the batch is over: the records are stored and the
\* response leaves (541-567)
ScanProjectReturn ==
    /\ project.pc = "batch"
    /\ project.pending = {}
    /\ project.awaiting = {}
    /\ project' = [project EXCEPT !.pc = "returned"]
    /\ rows' = AddAll(rows, DOMAIN project.results, project.results)
    /\ UNCHANGED <<pc, source, tree, cursor, node_count, complexity_score,
                   complexity, operators, operands, result, first, calls,
                   mi_call, frames, frame, tasks, running, request, latest>>
    /\ UNCHANGED extVars
    /\ UNCHANGED janitorVars

\* the client has the response, or the error of the unhandled exception
ScanProjectForget ==
    /\ project.pc \in {"returned", "raised"}
    /\ project' = NoProject
    /\ UNCHANGED <<pc, source, tree, cursor, node_count, complexity_score,
                   complexity, operators, operands, result, first, calls,
                   mi_call, frames, frame, tasks, running, rows, request,
                   latest>>
    /\ UNCHANGED extVars
    /\ UNCHANGED janitorVars

ScanProjectCall ==
    /\ pc = "idle"
    /\ \E files \in PostFileLists(MaxFiles) : ScanProject(files)

NextPost ==
    \/ ScanProjectNotFound
    \/ ScanProjectCall
    \/ \E t \in 1..MaxFiles : ProcessFile(t)
    \/ Walk
    \/ Metrics(FALSE)
    \/ TaskAnalyzed
    \/ \E t \in 1..MaxFiles : TaskResume(t)
    \/ ScanProjectBatch
    \/ \E t \in 1..MaxFiles, file \in RereadFiles : GenerateForFile(t, file)
    \/ \E t \in 1..MaxFiles, desc \in BatchDescriptions : BatchAnswered(t, desc)
    \/ ScanProjectReturn
    \/ ScanProjectForget

SpecPost == Init /\ [][NextPost]_vars

(***************************************************************************)
(* What the properties speak of, computed from the tree and the text       *)
(* alone, without the walkers.                                             *)
(***************************************************************************)
\* the paths of the nodes of the subtree of node, which stands at path
RECURSIVE PathsBelow(_, _)
PathsBelow(node, path) ==
    {path} \cup
    UNION { PathsBelow(node.children[i], Append(path, i)) :
              i \in 1..Len(node.children) }

AllPaths(root) == PathsBelow(root, <<>>)

ControlFlowPaths(root) ==
    {p \in AllPaths(root) : NodeAt(root, p).type \in CONTROL_FLOW_NODES}

\* the block nodes on the way from the root down to the node at path p
\* whose parent is no function, class or module
NestingBlocks(root, p) ==
    {k \in 1..Len(p) :
        /\ NodeAt(root, SubSeq(p, 1, k)).type = "block"
        /\ NodeAt(root, SubSeq(p, 1, k - 1)).type \notin ENCAPSULATION_NODES}

RECURSIVE SumNesting(_, _)
\* the sum of 1 + d over the paths in ps
SumNesting(root, ps) ==
    IF ps = {} THEN 0
    ELSE LET p == CHOOSE q \in ps : TRUE
         IN 1 + Cardinality(NestingBlocks(root, p))
            + SumNesting(root, ps \ {p})

\* what the cognitive walker added for the node at path p
AddsAt(root, p) ==
    LET adds == CognitiveAdds(root)
    IN [i \in {j \in 1..Len(adds) : adds[j].path = p} |-> adds[i].add]

AddAt(root, p) ==
    LET adds == CognitiveAdds(root)
    IN adds[CHOOSE j \in 1..Len(adds) : adds[j].path = p].add

\* analyze returned the record of a source it parsed
Analyzed == pc = "done" /\ ~IsEmptyInput(SourceText(source))

ClauseTypes == {"else_clause", "elif_clause", "except_clause"}
ClauseOwners ==
    {"if_statement", "for_statement", "while_statement", "try_statement"}

\* the clause children of the node at path p
ClausesOf(root, p) ==
    {i \in 1..Len(NodeAt(root, p).children) :
        NodeAt(root, p).children[i].type \in ClauseTypes}

(***************************************************************************)
(* Properties.                                                             *)
(***************************************************************************)

\* C1: for every non-empty source, the complexity_score analyze returns is
\* the number of nodes of the tree whose type is in CONTROL_FLOW_NODES,
\* wherever they stand in the tree.
C1_ScoreCountsEveryControlFlowNode ==
    Analyzed =>
        result.complexity_score = Cardinality(ControlFlowPaths(tree))

\* C2: for every non-empty source, the node_count analyze returns is the
\* number of nodes of the tree: the cursor visits every node before the
\* loop stops.
C2_NodeCountIsTreeSize ==
    Analyzed => result.node_count = Cardinality(AllPaths(tree))

\* C3: cognitive_complexity is the sum over the control-flow nodes of
\* 1 + d, d the number of block nodes above the node whose parent is no
\* function, class or module; the walker adds once for each such node and
\* for no other.
C3_CognitiveIsNestingSum ==
    Analyzed =>
        /\ result.cognitive_complexity
             = SumNesting(tree, ControlFlowPaths(tree))
        /\ LET adds == CognitiveAdds(tree)
           IN /\ {adds[i].path : i \in 1..Len(adds)} = ControlFlowPaths(tree)
              /\ Len(adds) = Cardinality(ControlFlowPaths(tree))
              /\ \A i \in 1..Len(adds) :
                   adds[i].add
                     = 1 + Cardinality(NestingBlocks(tree, adds[i].path))

\* a control-flow node two blocks deep, one of them the body of a function
\* or class, has been scored
C3_Witness ==
    /\ Analyzed
    /\ \E p \in ControlFlowPaths(tree) :
         /\ Cardinality(NestingBlocks(tree, p)) = 1
         /\ \E k \in 1..Len(p) :
              /\ NodeAt(tree, SubSeq(p, 1, k)).type = "block"
              /\ NodeAt(tree, SubSeq(p, 1, k - 1)).type
                   \in {"function_definition", "class_definition"}
    /\ result.cognitive_complexity >= 3

\* C4: a control-flow node that is a direct statement of the body block of
\* a function or class, wherever that definition stands, is scored at depth
\* 0: it adds exactly 1.
C4_DepthResetsAtEncapsulation ==
    Analyzed =>
        \A p \in ControlFlowPaths(tree) :
            ( /\ Len(p) >= 2
              /\ NodeAt(tree, SubSeq(p, 1, Len(p) - 1)).type = "block"
              /\ NodeAt(tree, SubSeq(p, 1, Len(p) - 2)).type
                   \in {"function_definition", "class_definition"} )
            => AddAt(tree, p) = 1

\* C5: an else, elif or except clause is scored at the depth of the
\* statement it belongs to: it adds what its statement adds, so a statement
\* that adds 1 + d and has k clauses adds (k + 1) * (1 + d) with them.
C5_ClausesAtStatementDepth ==
    Analyzed =>
        LET adds == CognitiveAdds(tree)
            AddOf(q) ==
                adds[CHOOSE j \in 1..Len(adds) : adds[j].path = q].add
        IN \A p \in ControlFlowPaths(tree) :
             NodeAt(tree, p).type \in ClauseOwners =>
                 LET clauses == ClausesOf(tree, p)
                 IN /\ \A i \in clauses : AddOf(Append(p, i)) = AddOf(p)
                    /\ AddOf(p)
                       + SumSeq([j \in 1..Len(adds) |->
                            IF \E i \in clauses :
                                 adds[j].path = Append(p, i)
                            THEN adds[j].add ELSE 0])
                       = (Cardinality(clauses) + 1)
                         * (1 + Cardinality(NestingBlocks(tree, p)))

\* an if with an else, both at depth 0, has been scored: 2 in all
C5_Witness ==
    /\ Analyzed
    /\ Len(tree.children) = 1
    /\ tree.children[1].type = "if_statement"
    /\ Cardinality(ClausesOf(tree, <<1>>)) = 1
    /\ tree.children[1].children[5].type = "else_clause"
    /\ result.cognitive_complexity = 2

\* every character of every line of the source is whitespace
BlankSource(src) ==
    \A i \in 1..Len(SourceLines(src)) :
        \A j \in 1..Len(SourceLines(src)[i]) :
            SourceLines(src)[i][j] \in Whitespace

\* C6: for every source text the maintainability_index analyze returns
\* lies in [0, 100]; so does what _calculate_maintainability_index returns
\* for the volumes, complexities and line counts of larger sources.
C6_IndexInRange ==
    /\ pc = "done" =>
         /\ result.maintainability_index >= 0
         /\ result.maintainability_index <= 10000
    /\ pc = "mi_done" =>
         /\ mi_call[1].returned >= 0
         /\ mi_call[1].returned <= 10000

\* analyze returned an index strictly inside the interval for a parsed source
C6_Witness ==
    /\ Analyzed
    /\ result.complexity_score >= 1
    /\ result.maintainability_index > 0
    /\ result.maintainability_index < 10000

\* C7: for an empty or whitespace-only source analyze returns the fixed
\* record and builds no tree.
C7_EmptyInputSentinel ==
    (pc = "done" /\ BlankSource(source)) =>
        /\ result = [node_count |-> 0, complexity_score |-> 0,
                     cognitive_complexity |-> 0, halstead_volume |-> 0,
                     sqale_debt_hours |-> 0, lines_of_code |-> 0,
                     maintainability_index |-> 10000, description |-> <<>>]
        /\ tree = NoTree
        /\ node_count = 0

\* analyze returned for a source of whitespace that is not the empty string
C7_Witness ==
    /\ pc = "done"
    /\ BlankSource(source)
    /\ SourceText(source) # <<>>
    /\ \E i \in 1..Len(source.pre) : source.pre[i] = "spaces"
    /\ result.maintainability_index = 10000

\* C8: in every record analyze returns, cognitive_complexity is at least
\* complexity_score.
C8_CognitiveAtLeastScore ==
    pc = "done" => result.cognitive_complexity >= result.complexity_score

\* analyze returned a record in which the counting loop met two
\* control-flow nodes, one nested in the other
C8_Witness ==
    /\ Analyzed
    /\ result.complexity_score = 2
    /\ result.cognitive_complexity > result.complexity_score

\* C9, as claimed: lines_of_code is at least 1 for every source text but
\* the empty string, whitespace-only sources included, and 0 for the empty
\* string alone.
C9_ZeroOnlyForEmptyString ==
    pc = "done" =>
        /\ SourceText(source) # <<>> => result.lines_of_code >= 1
        /\ result.lines_of_code = 0 => SourceText(source) = <<>>

\* C9, amended: lines_of_code is 0 exactly for the empty and the
\* whitespace-only sources, and at least 1 for every source that holds a
\* character that is not whitespace (a source of comment lines gets 1).
C9_ZeroExactlyForBlank ==
    pc = "done" =>
        /\ result.lines_of_code = 0 <=> BlankSource(source)
        /\ ~BlankSource(source) => result.lines_of_code >= 1
        /\ (source.stmts = <<>> /\ ~BlankSource(source))
             => result.lines_of_code = 1

\* analyze returned for a source that holds comment lines only
C9_Witness ==
    /\ pc = "done"
    /\ source.stmts = <<>>
    /\ \E i \in 1..Len(source.pre) : source.pre[i] = "comment"
    /\ result.lines_of_code = 1

\* C10: a call of analyze returns the record the first call on that text
\* returned, field by field, whatever calls the CodeParser served before.
C10_SameTextSameRecord ==
    (pc = "done" /\ first # <<>> /\ first[1].source = source) =>
        result = first[1].result

\* a later call on the text of the first call returned, for a source with
\* control flow, operators and operands
C10_Witness ==
    /\ Analyzed
    /\ calls = 2
    /\ first[1].source = source
    /\ result.cognitive_complexity >= 1
    /\ Len(operands) >= 1
    /\ result = first[1].result

\* C11: analyze returns a record for every source text and never raises:
\* the counting loop and the two recursive walkers finish on every tree.
C11_AnalyzeNeverRaises == pc # "raised"

\* C12: in every record analyze returns, the empty-input record included,
\* sqale_debt_hours is cognitive_complexity * 0.15 to two decimals: 15
\* hundredths of an hour for each point.
C12_DebtIsFifteenHundredthsPerPoint ==
    pc \in {"done", "nest_done"} =>
        result.sqale_debt_hours = 15 * result.cognitive_complexity

\* analyze returned 0.45 hours for a source of cognitive complexity 3
C12_Witness ==
    /\ Analyzed
    /\ result.cognitive_complexity = 3
    /\ result.sqale_debt_hours = 45

\* the volume 1.0 as a pair: length 1 over a vocabulary of 2
UnitVolume == [length |-> 1, vocabulary |-> 2]

\* C13: the index is a function of the Halstead volume, complexity_score
\* and lines_of_code, each floored at 1: it is the index of the floored
\* values, so complexity_score 0 gives what 1 gives, and the cognitive
\* complexity of the source has no part in it.
C13_IndexOfFlooredInputs ==
    /\ Analyzed =>
         result.maintainability_index
           = calculate_maintainability_index(
                 HalsteadVolume(operators, operands),
                 Max(result.complexity_score, 1),
                 Max(result.lines_of_code, 1))
    /\ pc = "mi_done" =>
         mi_call[1].returned
           = calculate_maintainability_index(
                 IF mi_call[1].halstead_volume = ZeroVolume
                 THEN UnitVolume ELSE mi_call[1].halstead_volume,
                 Max(mi_call[1].cyclomatic_complexity, 1),
                 Max(mi_call[1].lines_of_code, 1))

\* analyze returned, for a source with complexity_score 0 and a cognitive
\* complexity above it, the index that complexity_score 1 gives
C13_Witness ==
    /\ Analyzed
    /\ result.complexity_score = 0
    /\ result.cognitive_complexity >= 1
    /\ result.maintainability_index < 10000
    /\ result.maintainability_index
         = calculate_maintainability_index(
               HalsteadVolume(operators, operands), 1, result.lines_of_code)

\* the operand nodes of a tree and the text each stands for
OperandPaths(root) ==
    {p \in AllPaths(root) : NodeAt(root, p).type \in OPERAND_NODES}

OperandText(node) ==
    IF node.text # <<>> THEN node.text ELSE TypeText(node.type)

\* how often a value stands in a list
Occurrences(list, v) == Cardinality({i \in 1..Len(list) : list[i] = v})

\* C14: the operand list of the Halstead walk holds one entry for every
\* node whose kind is in OPERAND_NODES, the entry being the text of the
\* node: N2 is the number of operand nodes and n2 the number of distinct
\* operand texts, so a name met twice is one unique operand and two names
\* are two.
C14_OperandsKeyedByText ==
    Analyzed =>
        LET paths == OperandPaths(tree)
            texts == {OperandText(NodeAt(tree, p)) : p \in paths}
        IN /\ Len(operands) = Cardinality(paths)
           /\ Range(operands) = texts
           /\ \A t \in texts :
                Occurrences(operands, t)
                  = Cardinality({p \in paths :
                                   OperandText(NodeAt(tree, p)) = t})

\* the walk met the name x twice and the name f once
C14_Witness ==
    /\ Analyzed
    /\ Occurrences(operands, <<"x">>) = 2
    /\ Occurrences(operands, <<"f">>) = 1
    /\ Cardinality(Range(operands)) < Len(operands)

\* C15: halstead_volume is 0 when no operator and no operand was found and
\* (N1 + N2) * log2(n1 + n2) otherwise, N1 and N2 the lengths of the two
\* lists and n1 and n2 the numbers of distinct values in them; a source
\* without control-flow node, operator and operand has cognitive_complexity
\* 0 and halstead_volume 0.0.
C15_VolumeIsLengthTimesLogVocabulary ==
    Analyzed =>
        LET n1 == Cardinality(Range(operators))
            n2 == Cardinality(Range(operands))
            length == Len(operators) + Len(operands)
        IN /\ result.halstead_volume
                = IF n1 + n2 = 0 THEN 0
                  ELSE RoundPair(PairTimes(length, Log2(n1 + n2)), 10000)
           /\ ( /\ ControlFlowPaths(tree) = {}
                /\ OperandPaths(tree) = {}
                /\ \A p \in AllPaths(tree) :
                     NodeAt(tree, p).type \notin OPERATOR_NODES )
              => /\ result.cognitive_complexity = 0
                 /\ result.halstead_volume = 0

\* a source with an operator met twice and two operands met twice each:
\* 6 * log2(3) = 9.51
C15_Witness ==
    /\ Analyzed
    /\ Len(operators) = 2
    /\ Len(operands) = 4
    /\ Cardinality(Range(operators)) + Cardinality(Range(operands)) = 3
    /\ result.halstead_volume = 951

\* the top-level nodes of the module that are no comments
Statements(root) ==
    {i \in 1..Len(root.children) : root.children[i].type # "comment"}

\* the first of them
FirstStatement(root) ==
    root.children[CHOOSE i \in Statements(root) :
                      \A j \in Statements(root) : i <= j]

\* the string literals that are children of a node
StringsOf(node) ==
    {j \in 1..Len(node.children) : node.children[j].type = "string"}

FirstStringOf(node) ==
    node.children[CHOOSE j \in StringsOf(node) :
                      \A k \in StringsOf(node) : j <= k]

\* C16: description comes from the first top-level node that is no comment
\* and from no other: it is absent when that node is no expression
\* statement or holds no string literal, and is the text of that literal
\* without its quotes otherwise; a string literal later in the module or
\* inside a function or class is never used.
C16_OnlyFirstStatementInspected ==
    Analyzed =>
        IF Statements(tree) = {} THEN result.description = None
        ELSE LET stmt == FirstStatement(tree)
             IN IF stmt.type = "expression_statement"
                   /\ StringsOf(stmt) # {}
                THEN result.description
                       = Some(StripQuotes(FirstStringOf(stmt).text))
                ELSE result.description = None

\* a source whose first statement is no string literal and which holds one
\* further on got no description
C16_Witness ==
    /\ Analyzed
    /\ result.description = None
    /\ Statements(tree) # {}
    /\ FirstStatement(tree).type # "expression_statement"
    /\ \E i \in Statements(tree) :
         /\ tree.children[i].type = "expression_statement"
         /\ StringsOf(tree.children[i]) # {}

\* the quote delimiters, in the order they are tried
Delimiters == <<TripleDouble, TripleSingle, <<"\"">>, <<"'">>>>

Encloses(q, text) == StartsWith(text, q) /\ EndsWith(text, q)

\* C17: an extracted docstring is the literal's text with exactly one
\* matching pair of delimiters taken off, the delimiter being the first of
\* triple-double, triple-single, double and single quote that the text both
\* starts and ends with, and with the surrounding whitespace trimmed.
C17_OnePairOfQuotesRemoved ==
    (Analyzed /\ result.description # None) =>
        LET text == FirstStringOf(FirstStatement(tree)).text
        IN \E k \in 1..Len(Delimiters) :
             /\ Encloses(Delimiters[k], text)
             /\ \A j \in 1..(k - 1) : ~Encloses(Delimiters[j], text)
             /\ result.description
                  = Some(Strip(Slice(text, Len(Delimiters[k]),
                                     Len(Delimiters[k]))))

\* C18: analyze("") returns complexity_score 0 and a node_count of at
\* least 1, the module node being counted.
C18_EmptyStringCountsModule ==
    (pc = "done" /\ SourceText(source) = <<>>) =>
        /\ result.complexity_score = 0
        /\ result.node_count >= 1

(***************************************************************************)
(* C19.  What analyze returns for a text on a CodeParser that serves no    *)
(* other call, computed in one piece (309-392).                            *)
(***************************************************************************)
RECURSIVE CountingLoop(_, _, _, _)
\* the counting loop run to its end (349-366)
CountingLoop(root, c, nc, cs) ==
    LET b == LoopBody(root, c, nc, cs)
    IN IF b.again
       THEN CountingLoop(root, b.cursor, b.node_count, b.complexity_score)
       ELSE b

AnalyzeAlone(src) ==
    IF IsEmptyInput(SourceText(src)) THEN EmptyResult
    ELSE LET root == Parse(src)
             counted == CountingLoop(root, <<>>, 0, 0)
             cognitive_complexity == calculate_cognitive_complexity(root, 0)
             halstead == calculate_halstead_metrics(root, <<>>, <<>>)
             lines_of_code ==
                 count_lines_of_code(Split(SourceText(src), <<>>))
         IN [complexity_score |-> counted.complexity_score,
             node_count |-> counted.node_count,
             cognitive_complexity |-> cognitive_complexity,
             halstead_volume |-> RoundVolume(halstead.volume),
             maintainability_index |->
                 calculate_maintainability_index(
                     halstead.volume, counted.complexity_score, lines_of_code),
             sqale_debt_hours |-> SqaleDebt(cognitive_complexity),
             lines_of_code |-> lines_of_code,
             description |-> extract_module_docstring(root)]

\* the metrics of a record of analyze or of process_file
MetricNames ==
    {"complexity_score", "node_count", "cognitive_complexity",
     "halstead_volume", "maintainability_index", "sqale_debt_hours",
     "lines_of_code"}
MetricsOf(record) == [m \in MetricNames |-> record[m]]

\* the records of the scanned contents analysed alone
AloneOf == [c \in ScanContents |-> AnalyzeAlone(c)]

\* C19: in a scan that runs its process_file coroutines on one shared
\* CodeParser in any order the event loop allows, the metrics a coroutine
\* took from parser.analyze, and the metrics of the record it returned, are
\* the metrics analyze gives that file's content on a CodeParser of its own.
C19_ScanMetricsAreThoseOfTheFileAlone ==
    \A t \in DOMAIN tasks :
        LET alone == MetricsOf(AloneOf[tasks[t].file.content])
        IN /\ tasks[t].analysis # NoResult
                => MetricsOf(tasks[t].analysis) = alone
           /\ tasks[t].returned # <<>>
                => MetricsOf(tasks[t].returned[1]) = alone

\* a scan of two files with control flow: the second was analysed while the
\* first awaited its description, and both returned their records, the
\* second before the first
C19_Witness ==
    /\ Len(tasks) = 2
    /\ \A t \in {1, 2} :
           /\ tasks[t].pc = "finished"
           /\ tasks[t].returned # <<>>
           /\ tasks[t].returned[1].cognitive_complexity >= 1
    /\ tasks[1].returned[1].cognitive_complexity
           # tasks[2].returned[1].cognitive_complexity
    /\ source = tasks[1].file.content

\* the filenames submitted so far by requests that were answered
Submitted == DOMAIN latest

\* the rows of a filename
RowsOf(filename) == {r \in rows : r.file_path = filename}

\* C20: between requests the FileAnalysis table holds exactly one row for
\* every filename submitted and no other row, and the row of a filename
\* carries the metrics of the latest request for it.
C20_OneRowPerFilenameWithLatestMetrics ==
    request = <<>> =>
        /\ {r.file_path : r \in rows} \subseteq Submitted
        /\ \A f \in Submitted :
               /\ Cardinality(RowsOf(f)) = 1
               /\ latest[f] # NoResult
               /\ \A r \in RowsOf(f) : MetricsOf(r) = MetricsOf(latest[f])

\* what holds whether analyze returns or raises: no filename has two rows,
\* and a filename whose latest request was answered has one row with the
\* metrics of that request
AnsweredRequestsAreUpserted ==
    request = <<>> =>
        \A f \in Submitted :
            /\ Cardinality(RowsOf(f)) <= 1
            /\ latest[f] # NoResult =>
                   /\ Cardinality(RowsOf(f)) = 1
                   /\ \A r \in RowsOf(f) :
                          MetricsOf(r) = MetricsOf(latest[f])

\* the content of 992 pairs was analysed below the least levels the handler
\* can hold, and its row is in the table
DeepNestStored ==
    /\ request = <<>>
    /\ \E r \in rows : r.lines_of_code = 1 /\ r.node_count > 1000

\* the same content raised in the walker below the levels of asyncio.run
DeepNestRaised ==
    /\ request # <<>>
    /\ request[1].content = NestSource(992)
    /\ pc = "raised"

\* two filenames have a row each, the first row with a complexity of 2
TwoRowsForTwoFilenames ==
    /\ request = <<>>
    /\ \E f \in Submitted :
           /\ latest[f] # NoResult
           /\ latest[f].complexity_score = 2
           /\ \E r \in RowsOf(f) : r.id = 1 /\ r.complexity_score = 2
    /\ Cardinality(rows) = 2

(***************************************************************************)
(* C21.                                                                    *)
(***************************************************************************)
\* the reading that looks at the directories between the scanned root and the
\* file, and not at the directories that lead to the root
IgnoredBelowRoot(root, entry) ==
    \E ignored \in IGNORE_DIRS :
        \E i \in DOMAIN PartsBelowRoot(entry) :
            PartsBelowRoot(entry)[i] = ignored

\* an entry the scan has to analyse: a .py file that can be read and lies
\* in no directory below the root that IGNORE_DIRS names
ToBeScanned(root, entry) ==
    /\ MatchesPy(entry.name)
    /\ entry.readable
    /\ ~IgnoredBelowRoot(root, entry)

\* the coroutines that called analyze on an entry, and the results for it
AnalyzeCallsFor(entry) ==
    {t \in DOMAIN tasks : tasks[t].file = entry /\ tasks[t].analysis # NoResult}
ResultsFor(entry) ==
    {i \in DOMAIN results[1] :
        files_to_process[results[1][i].file_path] = entry}

\* C21: when scan_directory has returned, analyze was called once and the
\* list holds one result for every readable .py file of the directory that
\* lies in no directory named in IGNORE_DIRS below the root, and no call
\* was made and no result is held for any other entry.
C21_OneResultPerScannableFile ==
    (results # <<>> /\ directory # <<>> /\ directory[1].exists) =>
        \A e \in directory[1].entries :
            LET n == IF ToBeScanned(directory[1].root, e) THEN 1 ELSE 0
            IN /\ Cardinality(AnalyzeCallsFor(e)) = n
               /\ Cardinality(ResultsFor(e)) = n

\* the same for the roots that lie in no directory named in IGNORE_DIRS
ScanOfRootOutsideIgnoredDirs ==
    (results # <<>> /\ directory # <<>> /\ directory[1].exists
       /\ ~\E i \in DOMAIN directory[1].root :
              directory[1].root[i] \in IGNORE_DIRS) =>
        \A e \in directory[1].entries :
            LET n == IF ToBeScanned(directory[1].root, e) THEN 1 ELSE 0
            IN /\ Cardinality(AnalyzeCallsFor(e)) = n
               /\ Cardinality(ResultsFor(e)) = n

\* a scan returned one result for a directory that holds a file in venv
\* and a file that cannot be read
ScanDroppedVenvAndUnreadable ==
    /\ results # <<>>
    /\ directory # <<>>
    /\ Len(results[1]) = 0
    /\ \E e \in directory[1].entries :
           /\ MatchesPy(e.name) /\ e.readable
           /\ IgnoredBelowRoot(directory[1].root, e)
    /\ \E e \in directory[1].entries : MatchesPy(e.name) /\ ~e.readable

(***************************************************************************)
(* C22.                                                                    *)
(***************************************************************************)
\* the types of the nodes above the node at path p, from the root down
AncestorTypes(root, p) ==
    [k \in 1..Len(p) |-> NodeAt(root, SubSeq(p, 1, k - 1)).type]

RECURSIVE traverseReversed(_, _)
RECURSIVE ReversedChildren(_, _)
\* the total of a walk that visits the children of every node from the
\* last to the first, with the depths of lines 148-156
traverseReversed(node, nesting_depth) ==
    (IF node.type \in CONTROL_FLOW_NODES THEN 1 + nesting_depth ELSE 0)
    + ReversedChildren(node, nesting_depth)

ReversedChildren(node, nesting_depth) ==
    LET n == Len(node.children)
    IN SumSeq([i \in 1..n |->
                  traverseReversed(
                      node.children[n + 1 - i],
                      IF node.children[n + 1 - i].type = "block"
                         /\ node.type \notin ENCAPSULATION_NODES
                      THEN nesting_depth + 1 ELSE nesting_depth)])

\* the control-flow statements of the body of a function that stands at
\* the top of the module
TopFunctionStatements(root) ==
    {p \in ControlFlowPaths(root) :
        /\ Len(p) = 3
        /\ NodeAt(root, SubSeq(p, 1, 1)).type = "function_definition"
        /\ NodeAt(root, SubSeq(p, 1, 2)).type = "block"}

\* C22: two control-flow nodes with the same kinds of ancestors add the
\* same, whatever the walker visited between them (so a statement adds what
\* the statements before it in its block add, however deep those nest);
\* every control-flow statement of the body of a top-level function adds 1;
\* and a walk that visits the children in the reverse order has the same
\* total.
C22_DepthFollowsAncestorsOnly ==
    Analyzed =>
        LET adds == CognitiveAdds(tree)
            AddOf(q) ==
                adds[CHOOSE j \in 1..Len(adds) : adds[j].path = q].add
            paths == {adds[j].path : j \in 1..Len(adds)}
        IN /\ \A p, q \in paths :
                 AncestorTypes(tree, p) = AncestorTypes(tree, q)
                     => AddOf(p) = AddOf(q)
           /\ \A p \in TopFunctionStatements(tree) :
                 p \in paths /\ AddOf(p) = 1
           /\ result.cognitive_complexity = traverseReversed(tree, 0)

\* process_data was analysed: its try statement follows the if / for / if
\* nest in the body of the function and added 1, and the total is 11
C22_Witness ==
    /\ Analyzed
    /\ source \in GoldenSources
    /\ NodeAt(tree, <<1, 5, 2>>).type = "if_statement"
    /\ NodeAt(tree, <<1, 5, 3>>).type = "try_statement"
    /\ AddAt(tree, <<1, 5, 3>>) = 1
    /\ \E p \in ControlFlowPaths(tree) :
           /\ Len(p) > 5 /\ SubSeq(p, 1, 3) = <<1, 5, 2>>
           /\ AddAt(tree, p) = 3
    /\ result.cognitive_complexity = 11

(***************************************************************************)
(* C23.                                                                    *)
(***************************************************************************)
\* the nodes whose kind is an operator kind
OperatorKindPaths(root) ==
    {p \in AllPaths(root) : NodeAt(root, p).type \in OPERATOR_NODES}

\* the bare keyword leaves: tokens without children whose text is one of
\* OPERATOR_KEYWORDS
KeywordLeafPaths(root) ==
    {p \in AllPaths(root) :
        /\ NodeAt(root, p).children = <<>>
        /\ NodeAt(root, p).type \notin OPERATOR_NODES \cup OPERAND_NODES
        /\ NodeAt(root, p).text \in OPERATOR_KEYWORDS}

\* C23: the operator list of the Halstead walk holds one entry, the kind,
\* for every node whose kind is in OPERATOR_NODES, one entry, the keyword,
\* for every bare keyword leaf whose text is in OPERATOR_KEYWORDS, and no
\* other entry.
C23_OperatorsAreKindsAndKeywords ==
    Analyzed =>
        LET kinds == OperatorKindPaths(tree)
            keywords == KeywordLeafPaths(tree)
            keys == {TypeText(NodeAt(tree, p).type) : p \in kinds}
                    \cup {NodeAt(tree, p).text : p \in keywords}
        IN /\ Len(operators) = Cardinality(kinds) + Cardinality(keywords)
           /\ Range(operators) = keys
           /\ \A k \in keys :
                Occurrences(operators, k)
                  = Cardinality({p \in kinds :
                                   TypeText(NodeAt(tree, p).type) = k})
                    + Cardinality({p \in keywords :
                                     NodeAt(tree, p).text = k})

\* what the walk does record: the kinds of the operator nodes and nothing
\* for the keywords
OperatorsAreKindsOnly ==
    Analyzed =>
        /\ Len(operators) = Cardinality(OperatorKindPaths(tree))
        /\ \A i \in 1..Len(operators) :
               \E p \in OperatorKindPaths(tree) :
                   operators[i] = TypeText(NodeAt(tree, p).type)

\* a source with an assignment and the keywords if and pass was walked
AssignmentAndKeywordsWalked ==
    /\ Analyzed
    /\ Len(operators) = 1
    /\ Cardinality(KeywordLeafPaths(tree)) = 2

(***************************************************************************)
(* C24.                                                                    *)
(***************************************************************************)
\* the top-level expression statements of the module
ExpressionStatements(root) ==
    {i \in 1..Len(root.children) :
        root.children[i].type = "expression_statement"}

\* the children of a node that are no punctuation
MeaningfulChildren(node) ==
    {j \in 1..Len(node.children) : node.children[j].type # ","}

\* the node has a string literal as its only meaningful child
SoleStringChild(node) ==
    /\ Cardinality(MeaningfulChildren(node)) = 1
    /\ \A j \in MeaningfulChildren(node) : node.children[j].type = "string"

\* C24: description is absent unless the first top-level expression
\* statement has a string literal as its sole meaningful child: it is
\* absent when there is no such statement, when the statement holds a string
\* literal together with other children, and when it holds no string
\* literal.
C24_DescriptionOnlyFromSoleString ==
    Analyzed =>
        LET es == ExpressionStatements(tree)
        IN IF es = {} THEN result.description = None
           ELSE LET stmt == tree.children[CHOOSE i \in es :
                                              \A j \in es : i <= j]
                IN ~SoleStringChild(stmt) => result.description = None

\* the same for the expression statements that hold no string literal or
\* nothing but a string literal
DescriptionOfPlainStatements ==
    Analyzed =>
        LET es == ExpressionStatements(tree)
        IN IF es = {} THEN result.description = None
           ELSE LET stmt == tree.children[CHOOSE i \in es :
                                              \A j \in es : i <= j]
                IN (~SoleStringChild(stmt) /\ StringsOf(stmt) = {})
                       => result.description = None

\* a source whose first statement is an assignment got no description, and
\* so did one whose string statement follows a pass statement
AssignmentFirstNoDescription ==
    /\ Analyzed
    /\ result.description = None
    /\ ExpressionStatements(tree) # {}
    /\ tree.children[1].type = "expression_statement"
    /\ tree.children[1].children[1].type = "assignment"

(***************************************************************************)
(* The fix agent.                                                          *)
(***************************************************************************)
\* the fixes the call asked the LLM for
FixRequests == {i \in 1..Len(llm_requests) : llm_requests[i] = "fix"}

\* the call has its issue type, and it is none of the simple ones
BehaviouralPath ==
    /\ solve.pc \notin {"idle", "classify"}
    /\ solve.issue_type \in ValidTypes \ SIMPLE_ISSUE_TYPES

\* solve has returned a dict with this status
ReturnedStatus(status) ==
    solve.pc = "returned" /\ solve.result.status = status

\* the runs of fixes that returned an output which did not pass
FailingFixes ==
    {i \in 2..Len(sandbox_runs) :
        sandbox_runs[i].outcome = "returned" /\ ~sandbox_runs[i].passed}

\* the call is over: solve returned a dict or left with an exception
SolveEnded == solve.pc \in {"returned", "raised"}

\* the numbers of the call: its status, its requests, its runs, its attempts
SolveWithinBounds ==
    /\ solve.pc = "returned" => solve.result.status \in {"success", "failed"}
    /\ solve.pc = "raised" =>
          \/ solve.error = "llm_error"
          \/ /\ solve.error = "UnicodeDecodeError"
             /\ sandbox_runs[Len(sandbox_runs)].outcome = "raised"
    /\ BehaviouralPath =>
          /\ Cardinality(FixRequests) <= 3
          /\ Len(sandbox_runs) <= 4
          /\ Len(sandbox_runs) <= 1 + Cardinality(FixRequests)
    /\ ReturnedStatus("success") => solve.result.attempts \in 1..3
    /\ (solve.pc = "returned" /\ Cardinality(FailingFixes) = 3) =>
          /\ solve.result.status = "failed"
          /\ "last_attempt" \in DOMAIN solve.result
          /\ solve.result.last_attempt = sandbox_runs[4].main_code

\* C25 as stated: every call of solve ends with a result whose status is
\* 'success' or 'failed' (a call that has ended has returned a dict), and the
\* call keeps within its numbers: at most 3 fix requests and 4 sandbox runs
\* on the behavioural path, attempts between 1 and 3 on success, and after 3
\* failing fixes 'failed' with the third fix as last_attempt.
C25_EveryCallEndsWithBoundedResult ==
    /\ solve.pc # "raised"
    /\ SolveWithinBounds

\* C25, amended: a call of solve whose sandbox runs all come to an end
\* comes to an end itself, with a dict of status 'success' or 'failed', with
\* the exception of an LLM request that raised or with the
\* UnicodeDecodeError of a sandbox run, and every call keeps within the
\* numbers of the claim.
C25_CallsEndAndKeepWithinBounds ==
    /\ [](SolveWithinBounds)
    /\ WF_vars(SandboxEnds) => ((solve.pc = "classify") ~> SolveEnded)

\* every call comes to an end, whatever the sandbox does: this does not
\* hold, a run that does not come back keeps the call in run_code
CallsEndWhateverTheSandbox == (solve.pc = "classify") ~> SolveEnded

\* the second fix made the container fail with a stderr that could not be
\* decoded, and solve left with the UnicodeDecodeError
SolveLeftWithSandboxError ==
    /\ solve.pc = "raised"
    /\ solve.error = "UnicodeDecodeError"
    /\ Len(sandbox_runs) = 3
    /\ sandbox_runs[2].outcome = "returned"
    /\ sandbox_runs[3].outcome = "raised"

\* three fixes failed one after the other and the call gave up with the last
C25_Witness ==
    /\ ReturnedStatus("failed")
    /\ BehaviouralPath
    /\ Cardinality(FixRequests) = 3
    /\ Len(sandbox_runs) = 4
    /\ Cardinality(FailingFixes) = 3
    /\ solve.result.last_attempt = <<"b">>
    /\ sandbox_runs[2].main_code = <<"a">>

\* C26: on the behavioural path a 'success' is returned only when the first
\* run of the sandbox was the reproduction script on the original code, came
\* back and did not pass, and the last run was the same script on the
\* fixed_code of the result, came back and passed (no run of the call raised
\* or is still going on); and when the script passes on the original code
\* the call returns 'failed' and has asked for no fix.
C26_SuccessOnlyAfterReproFailedAndFixPassed ==
    /\ (ReturnedStatus("success") /\ BehaviouralPath) =>
          /\ Len(sandbox_runs) >= 2
          /\ \A i \in 1..Len(sandbox_runs) :
                sandbox_runs[i].outcome = "returned"
          /\ sandbox_runs[1].main_code = OriginalCode
          /\ sandbox_runs[1].test_code = solve.result.repro_script
          /\ ~sandbox_runs[1].passed
          /\ sandbox_runs[Len(sandbox_runs)].main_code = solve.result.fixed_code
          /\ sandbox_runs[Len(sandbox_runs)].test_code = solve.result.repro_script
          /\ sandbox_runs[Len(sandbox_runs)].passed
    /\ (Len(sandbox_runs) >= 1 /\ sandbox_runs[1].passed) =>
          /\ ReturnedStatus("failed")
          /\ FixRequests = {}
          /\ Len(sandbox_runs) = 1

\* the first fix, a, failed the script and the second, b, passed it
C26_Witness ==
    /\ ReturnedStatus("success")
    /\ BehaviouralPath
    /\ solve.result.attempts = 2
    /\ solve.result.fixed_code = <<"b">>
    /\ sandbox_runs[2].main_code = <<"a">>
    /\ ~sandbox_runs[1].passed
    /\ sandbox_runs[3].passed

\* the call has its issue type, and it is typo, docs or style
SimplePath ==
    /\ solve.pc \notin {"idle", "classify"}
    /\ solve.issue_type \in SIMPLE_ISSUE_TYPES

\* 'failed' came before any request but the classifying one, and no run
FailedBeforeAnyRequest ==
    /\ ReturnedStatus("failed")
    /\ llm_requests = <<"classify">>
    /\ sandbox_runs = <<>>

\* C27 as stated: a call classified typo, docs or style returns 'success'
\* with attempts = 1 after exactly one fix request and no run of the
\* sandbox, available or not; a call classified behavioral_bug with the
\* sandbox unavailable returns 'failed' before any reproduction script or
\* fix is requested.
C27_SimpleIssuesSucceedWithoutSandbox ==
    /\ SimplePath => sandbox_runs = <<>>
    /\ (SimplePath /\ solve.pc = "returned") =>
          /\ solve.result.status = "success"
          /\ solve.result.attempts = 1
          /\ Cardinality(FixRequests) = 1
    /\ (BehaviouralPath /\ ~solve.available) => FailedBeforeAnyRequest

\* the classifying request was answered
Classified == SimplePath \/ BehaviouralPath

\* C27, amended: what the claim says of the simple issues holds when the
\* file can be read; when it cannot, the call returns 'failed' and no fix is
\* requested, whatever the classification.
C27_SimpleIssuesOfReadableFilesSucceed ==
    /\ SimplePath => sandbox_runs = <<>>
    /\ (SimplePath /\ solve.pc = "returned" /\ solve.file = "readable") =>
          /\ solve.result.status = "success"
          /\ solve.result.attempts = 1
          /\ Cardinality(FixRequests) = 1
    /\ (Classified /\ solve.file # "readable") => FailedBeforeAnyRequest
    /\ (BehaviouralPath /\ ~solve.available) => FailedBeforeAnyRequest

\* a style issue was fixed while the sandbox was unavailable
C27_Witness ==
    /\ SimplePath
    /\ solve.issue_type = <<"s","t","y","l","e">>
    /\ ~solve.available
    /\ ReturnedStatus("success")
    /\ solve.result.fixed_code = <<"a">>
    /\ Cardinality(FixRequests) = 1

(***************************************************************************)
(* POST /scan.                                                             *)
(***************************************************************************)
\* the docstring the parser finds in the file at this path of the scan
DocstringOf(t) == AnalyzeAlone(project.files[t].content).description

\* the requests of the batch step are for files that have neither a
\* docstring longer than ten characters nor a cached description
BatchRequestsOnlyForUndescribed ==
    project.pc \in {"batch", "returned"} =>
        \A t \in project.requested :
            /\ project.files[t].readable
            /\ ~HasDocstring(DocstringOf(t))
            /\ t \notin DOMAIN project.description_cache

\* a coroutine of scan_directory awaits generate_description
ScanDirectoryAwaitsLlm ==
    \E t \in DOMAIN tasks : tasks[t].pc = "awaiting"

\* C28: while POST /scan awaits scan_directory no LLM request is pending or
\* made (the scan is static), and the LLM requests of the batch step that
\* follows are only for files that have neither a docstring longer than 10
\* characters nor a description cached from the scan before.
C28_ScanIsStaticAndBatchAsksOnlyForUndescribed ==
    /\ project.pc = "scanning" => ~ScanDirectoryAwaitsLlm
    /\ BatchRequestsOnlyForUndescribed

\* the batch step found the only file it had to describe unreadable and
\* stored the row with "Description unavailable (AI skipped)", without a
\* request
BatchSkippedUnreadableFile ==
    /\ project.pc = "returned"
    /\ project.files_needing_ai = {1}
    /\ project.requested = {}
    /\ \E r \in rows : r.file_path = 1 /\ r.description = Some(AiSkipped)

\* a file with a docstring of ten characters and no cached description got
\* its description in the batch step
BatchAskedForShortDocstring ==
    /\ project.pc = "returned"
    /\ project.requested = {1}
    /\ Len(project.files) = 2
    /\ DocstringOf(1) # None
    /\ Len(DocstringOf(1)[1]) = 10
    /\ \E r \in rows :
         /\ r.file_path = 1
         /\ r.description = Some(<<"D","e","f","i","n","e","s"," ","x",".">>)
    /\ 2 \in DOMAIN project.description_cache

(***************************************************************************)
(* The counting pass and the tree.                                         *)
(***************************************************************************)
\* a record whose cognitive complexity is 0 has complexity_score 0
NoControlFlowMeansNoScore ==
    (pc = "done" /\ result.cognitive_complexity = 0)
        => result.complexity_score = 0

\* C29: in every record analyze returns, complexity_score is 0 exactly when
\* cognitive_complexity is 0.
C29_ScoreZeroExactlyWhenCognitiveZero ==
    pc = "done" =>
        (result.complexity_score = 0 <=> result.cognitive_complexity = 0)

\* a source with one control-flow node, the first thing in it, got 1 and 1
BothPassesSawTheIf ==
    /\ Analyzed
    /\ tree.children[1].type = "if_statement"
    /\ result.complexity_score = 1
    /\ result.cognitive_complexity = 1

\* C30: the counting pass counts no node twice: node_count is at least 1
\* and at most the number of nodes of the tree, and complexity_score is at
\* most the number of control-flow nodes of the tree; this holds after
\* every pass through the loop and in the record.
C30_CountingPassCountsNoNodeTwice ==
    /\ (pc \in {"walked", "done"} /\ tree # NoTree) =>
          /\ node_count >= 1
          /\ node_count <= Cardinality(AllPaths(tree))
          /\ complexity_score <= Cardinality(ControlFlowPaths(tree))
    /\ (pc = "walk" /\ tree # NoTree) =>
          /\ node_count <= Cardinality(AllPaths(tree))
          /\ complexity_score <= Cardinality(ControlFlowPaths(tree))
    /\ Analyzed =>
          /\ result.node_count = node_count
          /\ result.complexity_score = complexity_score

\* the pass counted every node of a tree that holds a control-flow node
C30_Witness ==
    /\ Analyzed
    /\ result.node_count = Cardinality(AllPaths(tree))
    /\ result.node_count >= 3
    /\ ControlFlowPaths(tree) # {}
    /\ result.complexity_score = Cardinality(ControlFlowPaths(tree))

====
